---- MODULE Spec2Model ----
(***************************************************************************)
(* Model of the batch orchestration layer of the job-application           *)
(* assistant: the rate-limit classifier and the bounded concurrent batch   *)
(* runner (server/batch/utils.ts) and the relevance reranker adapter       *)
(* (server/jina.ts).                                                       *)
(*                                                                         *)
(* JavaScript values are encoded as follows.  An optional value (a         *)
(* property that may be undefined or null) is a sequence of length 0       *)
(* (absent) or 1 (present).  A string is a sequence of one-character       *)
(* strings, so that toLowerCase and includes are computed character by     *)
(* character.                                                              *)
(***************************************************************************)
EXTENDS Integers, Sequences, FiniteSets, TLC

VARIABLES
    \* ---- rate-limit classifier (isRateLimitError called on its own)
    clsErr,        \* the argument: [kind |-> "null" | "undefined" | "object", ...]
    clsResult,     \* <<>> before the call, <<b>> after it returned b
    \* ---- batch runner (batchProcess / batchProcessWithSSE)
    mode,          \* "strict" (batchProcess) or "lenient" (batchProcessWithSSE)
    nItems,        \* items.length
    concurrency,   \* options.concurrency
    retries,       \* options.retries
    st,            \* per item: state of its unit of work
    attempts,      \* per item: number of handler invocations so far
    lastErr,       \* per item: <<>> or <<e>>, the error of the last failed attempt
    results,       \* the results array: per index <<>> (hole) or <<slot value>>
    done,          \* the done counter
    sent,          \* progress reports / SSE messages, in the order they were made
    outcome,       \* "pending", "returned" or "rejected": the promise of the run
    rejErr,        \* <<>> or <<[item, err]>>: what the run rejected with
    returned,      \* <<>> or <<array>>: what the run resolved with
    inFlightAtReject, \* history: the units in flight when the run rejected
    settled,       \* history: the items in the order their units of work ended
    \* ---- reranker adapter (rerankJobsWithJina)
    jobs,          \* params.jobs, a sequence of hits
    keyPresent,    \* whether process.env.JINA_API_KEY is set
    provider,      \* <<>> before the call; <<response>> once the provider answered
    rrOut          \* [kind |-> "pending" | "returned" | "raised", ...]

VARIABLES
    \* ---- looksLikeJobPosting called on its own
    lkUrl,         \* the URL
    lkRule,        \* the index of the rule in UK_SITES (1-based)
    lkResult,      \* <<>> before the call, <<b>> after it returned b
    \* ---- search aggregator (searchJobsUK)
    sKey,          \* whether process.env.SERPER_API_KEY is set
    sPc,           \* "start", "strict", "fallback", "returned" or "raised"
    sRule,         \* the index of the rule whose request is next (1-based)
    sAll,          \* the array all
    sSeen,         \* the set seen
    sReqs,         \* history: the requests issued, <<pass, rule>> each
    sOffered,      \* history: the raw hits answered in the current pass, in order
    sErr,          \* "none", or the error searchJobsUK rejected with
    sOut           \* <<>> or <<list>>: what searchJobsUK resolved with

VARIABLES
    \* ---- MatchStep (client): one mounted component and its parent's list
    mMounted,      \* whether the component is mounted
    mJobs,         \* the parent's jobs state, what is displayed
    mClosure,      \* the jobs prop captured by the running runSearchAndMatchOnce
    mPc,           \* "searching", "primary", "fallback" or "done"
    mFound,        \* the number of hits the search answered
    mAll,          \* allMatched
    mNext,         \* the index in top5 of the job being scored (1-based)
    mCancelled,    \* cancelledRef.current
    mNextId,       \* the next value uid() hands out
    mLoading,      \* the loading state
    mProgress,     \* progress.done
    mToast,        \* "none", "No jobs found" or "Search / matching failed"
    mFailed,       \* history: the jobs of this run whose scoring call failed
    mStaleKey,     \* history: selectedKey has changed during the run under way
    mPlain         \* history: how the plain request ended, if the latest step was its settling

VARIABLES
    \* ---- document layout engine (textToPdfBuffer), content preparation
    pLines,        \* splitLines(raw): the lines of the trimmed content
    pMode,         \* input.mode || "auto"
    pPc,           \* "input" before the call, "classified" after the content pass
    pQaMode,       \* qaMode
    pBlocks,       \* the blocks drawn by the content pass, in order
    \* ---- document layout engine (textToPdfBuffer), pages and footers
    dRevision,     \* the revision of textToPdfBuffer: "pdf.ts" or "part_005"
    dQaMode,       \* qaMode
    dMarginFlow,   \* pdfkit moves a text written below the bottom margin to a new page
    dBlocks,       \* the kinds of the blocks still to draw, in order
    dY,            \* doc.y
    dPageCount,    \* the number of pages of the document
    dFooters,      \* per page, the "Page i of n" texts written on it, in order
    dPc,           \* "content", "footers", "ended"
    dI,            \* the page the footer loop is at (i - start + 1)
    dTotalPages,   \* totalPages, 0 before the footer pass
    dPage,         \* the index of doc.page, the page being drawn on
    dHeaders,      \* per page, the number of header bands drawn on it
    dStart         \* where the block drawn last began: <<[kind, y, page]>>, <<>> before the first

clsVars == <<clsErr, clsResult>>
lookVars == <<lkUrl, lkRule, lkResult>>
searchVars == <<sKey, sPc, sRule, sAll, sSeen, sReqs, sOffered, sErr, sOut>>
matchVars == <<mMounted, mJobs, mClosure, mPc, mFound, mAll, mNext, mCancelled, mNextId,
               mLoading, mProgress, mToast, mFailed, mStaleKey, mPlain>>
textVars == <<pLines, pMode, pPc, pQaMode, pBlocks>>
docVars == <<dRevision, dQaMode, dMarginFlow, dBlocks, dY, dPageCount, dFooters, dPc, dI, dTotalPages,
             dPage, dHeaders, dStart>>
laterVars == <<lookVars, searchVars, matchVars, textVars, docVars>>
batchVars == <<mode, nItems, concurrency, retries, st, attempts, lastErr, results,
               done, sent, outcome, rejErr, returned, inFlightAtReject, settled>>
rerankVars == <<jobs, keyPresent, provider, rrOut>>
vars == <<clsVars, batchVars, rerankVars, laterVars>>

(***************************************************************************)
(* Bounds of the model.                                                    *)
(***************************************************************************)
MaxItems == 2
MaxConcurrency == 2
MaxRetries == 2
MaxJobs == 3
MaxRanked == 2

(***************************************************************************)
(* Strings.                                                                *)
(***************************************************************************)
UpperChars == <<"A","B","C","D","E","F","G","H","I","J","K","L","M",
                "N","O","P","Q","R","S","T","U","V","W","X","Y","Z">>
LowerChars == <<"a","b","c","d","e","f","g","h","i","j","k","l","m",
                "n","o","p","q","r","s","t","u","v","w","x","y","z">>

LowerOf ==
    [c \in {UpperChars[k] : k \in DOMAIN UpperChars} |->
        LowerChars[CHOOSE k \in DOMAIN UpperChars : UpperChars[k] = c]]

toLowerCaseChar(c) == IF c \in DOMAIN LowerOf THEN LowerOf[c] ELSE c

toLowerCase(s) == [k \in DOMAIN s |-> toLowerCaseChar(s[k])]

includes(s, sub) ==
    \E k \in 0..(Len(s) - Len(sub)) : SubSeq(s, k + 1, k + Len(sub)) = sub

StrRateLimit == <<"r","a","t","e"," ","l","i","m","i","t">>
StrTooManyRequests == <<"t","o","o"," ","m","a","n","y"," ","r","e","q","u","e","s","t","s">>
StrQuota == <<"q","u","o","t","a">>
StrFailed == <<"F","a","i","l","e","d">>

\* Message texts used as inputs.
MsgRateLimitHit == <<"R","a","t","e"," ","L","i","m","i","t"," ","h","i","t">>
Msg429TooMany == <<"4","2","9"," ","T","o","o"," ","M","a","n","y"," ",
                   "R","e","q","u","e","s","t","s">>
MsgQuotaUpper == <<"Q","U","O","T","A">>
MsgBoom == <<"b","o","o","m">>
MsgRateHyphen == <<"r","a","t","e","-","l","i","m","i","t">>
MsgEmpty == <<>>

Absent == <<>>
Some(v) == <<v>>

\* a ?? b
Nullish(a, b) == IF a # Absent THEN a ELSE b

\* a || b for optional strings: a when a is present and not the empty string
Truthy(a) == a # Absent /\ a[1] # MsgEmpty
OrElse(a, b) == IF Truthy(a) THEN a ELSE b

(***************************************************************************)
(* isRateLimitError                                                        *)
(***************************************************************************)
StatusValues == {Absent, Some(429), Some(500)}
Responses == {Absent} \cup
             {Some([status |-> s, statusCode |-> c]) : s \in StatusValues, c \in StatusValues}
MessageValues == {Absent, Some(MsgEmpty), Some(MsgRateLimitHit), Some(Msg429TooMany),
                  Some(MsgQuotaUpper), Some(MsgBoom), Some(MsgRateHyphen)}
ErrorFieldValues == {Absent, Some(MsgQuotaUpper), Some(MsgBoom)}

ErrorObjects ==
    [kind : {"object"}, status : StatusValues, statusCode : StatusValues,
     response : Responses, message : MessageValues, error : ErrorFieldValues]

JsNull == [kind |-> "null"]
JsUndefined == [kind |-> "undefined"]
ClassifierInputs == ErrorObjects \cup {JsNull, JsUndefined}

\* err.response?.status and err.response?.statusCode
ResponseStatus(err) == IF err.response = Absent THEN Absent ELSE err.response[1].status
ResponseStatusCode(err) == IF err.response = Absent THEN Absent ELSE err.response[1].statusCode

\* err.status ?? err.statusCode ?? err.response?.status ?? err.response?.statusCode
StatusOf(err) ==
    Nullish(err.status,
        Nullish(err.statusCode,
            Nullish(ResponseStatus(err), ResponseStatusCode(err))))

\* String(err.message || err.error || "").toLowerCase()
MsgOf(err) ==
    LET m == OrElse(err.message, OrElse(err.error, Some(MsgEmpty)))
    IN  toLowerCase(m[1])

isRateLimitError(err) ==
    IF err.kind # "object" THEN FALSE
    ELSE IF StatusOf(err) = Some(429) THEN TRUE
    ELSE LET msg == MsgOf(err)
         IN  \/ includes(msg, StrRateLimit)
             \/ includes(msg, StrTooManyRequests)
             \/ includes(msg, StrQuota)

(***************************************************************************)
(* The batch runner: batchProcess (strict) and batchProcessWithSSE         *)
(* (lenient).  Item i (0-based, as in the code) is in one of the states    *)
(*   "queued"    waiting in the limiter's queue                            *)
(*   "running"   the handler has been invoked and has not settled          *)
(*   "waiting"   the handler failed, a retry is scheduled (backoff)        *)
(*   "succeeded" the handler resolved and the unit of work is over         *)
(*   "failed"    the retry wrapper rejected and the unit of work is over   *)
(***************************************************************************)
Items == 0..(nItems - 1)

\* The errors a handler may raise: an HTTP 429, a hard failure with a message
\* and a hard failure with an empty message.  One of them is retryable, so that
\* the error the retry wrapper gives up with is the one every attempt raised.
\* All are Error instances: the retry wrapper retries nothing else.
ErrHttp429 == [kind |-> "object", status |-> Some(429), statusCode |-> Absent,
               response |-> Absent, message |-> Some(Msg429TooMany), error |-> Absent]
ErrBoom == [kind |-> "object", status |-> Some(500), statusCode |-> Absent,
            response |-> Absent, message |-> Some(MsgBoom), error |-> Absent]
ErrBare == [kind |-> "object", status |-> Absent, statusCode |-> Absent,
            response |-> Absent, message |-> Some(MsgEmpty), error |-> Absent]
HandlerErrors == {ErrHttp429, ErrBoom, ErrBare}

\* The value handler(items[i], i) resolves with.
HandlerValue(i) == [ok |-> TRUE, value |-> i]

\* { ok: false, error: err?.message || "Failed" }
FailureSlot(e) == [ok |-> FALSE, error |-> OrElse(e.message, Some(StrFailed))[1]]

\* The limiter: units that hold one of its slots.
InFlight == {i \in Items : st[i] \in {"running", "waiting"}}
activeCount == Cardinality(InFlight)

\* Mutant: the limiter starts a queued unit whether or not a slot is free.
SlotAlwaysFree == TRUE

\* The limiter starts the head of its FIFO queue when a slot is free.
SlotFree == activeCount < concurrency
QueueHead(i) == st[i] = "queued" /\ \A j \in Items : j < i => st[j] # "queued"

\* Mutants: a retry budget one too large, and one too small.
RetryBudgetOffByOne(i) == attempts[i] <= retries + 1
RetryBudgetShort(i) == attempts[i] < retries

\* The retry wrapper schedules another attempt while the budget lasts.
RetryBudgetLeft(i) == attempts[i] <= retries

\* Mutant: results are stored in completion order instead of by index.
SlotIndexByCompletion(i) == done

\* results[index] = ...
SlotIndex(i) == i

\* { done, total: items.length } and { type: "progress", done, total: items.length }
ProgressReport(d) ==
    IF mode = "strict" THEN [done |-> d, total |-> nItems]
    ELSE [type |-> "progress", done |-> d, total |-> nItems]
DoneMessage == [type |-> "done"]

\* Mutant: the report is made before the counter is incremented.
StoreAndReportStale(i, slot) ==
    /\ results' = [results EXCEPT ![SlotIndex(i)] = Some(slot)]
    /\ done' = done + 1
    /\ sent' = Append(sent, ProgressReport(done))

\* The body after the awaited retry wrapper: store, count, report.
StoreAndReport(i, slot) ==
    /\ results' = [results EXCEPT ![SlotIndex(i)] = Some(slot)]
    /\ done' = done + 1
    /\ sent' = Append(sent, ProgressReport(done + 1))

\* The limiter dequeues item i and invokes handler(item, i) for the first time.
Start(i) ==
    /\ i \in Items
    /\ QueueHead(i)
    /\ SlotFree
    /\ st' = [st EXCEPT ![i] = "running"]
    /\ attempts' = [attempts EXCEPT ![i] = 1]
    /\ UNCHANGED <<mode, nItems, concurrency, retries, lastErr, results, done, sent,
                   outcome, rejErr, returned, inFlightAtReject, settled, clsVars, rerankVars, laterVars>>

\* handler(item, i) resolves: the retry wrapper resolves with its value.
HandlerResolves(i) ==
    /\ i \in Items
    /\ st[i] = "running"
    /\ st' = [st EXCEPT ![i] = "succeeded"]
    /\ StoreAndReport(i, HandlerValue(i))
    /\ settled' = Append(settled, i)
    /\ UNCHANGED <<mode, nItems, concurrency, retries, attempts, lastErr,
                   outcome, rejErr, returned, inFlightAtReject, clsVars, rerankVars, laterVars>>

\* Mutants: the strict runner swallowing a failure as the lenient one does,
\* and the lenient runner rejecting as the strict one does.
GiveUpLenientAlways(i, e) ==
    /\ st' = [st EXCEPT ![i] = "failed"]
    /\ settled' = Append(settled, i)
    /\ StoreAndReport(i, FailureSlot(e))
    /\ UNCHANGED <<outcome, rejErr, inFlightAtReject>>

GiveUpStrictAlways(i, e) ==
    /\ st' = [st EXCEPT ![i] = "failed"]
    /\ settled' = Append(settled, i)
    /\ IF outcome = "pending"
       THEN /\ outcome' = "rejected"
            /\ rejErr' = Some([item |-> i, err |-> e])
            /\ inFlightAtReject' = InFlight \ {i}
       ELSE UNCHANGED <<outcome, rejErr, inFlightAtReject>>
    /\ UNCHANGED <<results, done, sent>>

\* The retry wrapper gives up with error e for item i.
\* strict: the unit rejects, and so does Promise.all if it has not settled yet.
\* lenient: the catch block stores the failure, counts and reports it.
GiveUp(i, e) ==
    /\ st' = [st EXCEPT ![i] = "failed"]
    /\ settled' = Append(settled, i)
    /\ IF mode = "strict"
       THEN /\ IF outcome = "pending"
               THEN /\ outcome' = "rejected"
                    /\ rejErr' = Some([item |-> i, err |-> e])
                    /\ inFlightAtReject' = InFlight \ {i}
               ELSE UNCHANGED <<outcome, rejErr, inFlightAtReject>>
            /\ UNCHANGED <<results, done, sent>>
       ELSE /\ StoreAndReport(i, FailureSlot(e))
            /\ UNCHANGED <<outcome, rejErr, inFlightAtReject>>

\* handler(item, i) rejects with e: onFailedAttempt rethrows unless e is a
\* rate-limit error; otherwise a retry is scheduled while the budget lasts, and
\* with the budget spent the wrapper rejects.
HandlerRejects(i, e) ==
    /\ i \in Items
    /\ st[i] = "running"
    /\ lastErr' = [lastErr EXCEPT ![i] = Some(e)]
    /\ IF ~isRateLimitError(e)
       THEN GiveUp(i, e)
       ELSE IF RetryBudgetLeft(i)
       THEN /\ st' = [st EXCEPT ![i] = "waiting"]
            /\ UNCHANGED <<results, done, sent, outcome, rejErr, inFlightAtReject, settled>>
       ELSE GiveUp(i, e)
    /\ UNCHANGED <<mode, nItems, concurrency, retries, attempts, returned,
                   clsVars, rerankVars, laterVars>>

\* The backoff of item i elapses: handler(item, i) is invoked again.
Retry(i) ==
    /\ i \in Items
    /\ st[i] = "waiting"
    /\ st' = [st EXCEPT ![i] = "running"]
    /\ attempts' = [attempts EXCEPT ![i] = @ + 1]
    /\ UNCHANGED <<mode, nItems, concurrency, retries, lastErr, results, done, sent,
                   outcome, rejErr, returned, inFlightAtReject, settled, clsVars, rerankVars, laterVars>>

\* Promise.all resolves once every unit has resolved; the lenient variant then
\* sends the done message; the results array is returned.
AllUnitsResolved ==
    \A i \in Items : st[i] = "succeeded" \/ (mode = "lenient" /\ st[i] = "failed")

\* Mutant: the done message is sent without waiting for Promise.all.
ReturnEarly ==
    /\ outcome = "pending"
    /\ outcome' = "returned"
    /\ returned' = Some(results)
    /\ sent' = IF mode = "lenient" THEN Append(sent, DoneMessage) ELSE sent
    /\ UNCHANGED <<mode, nItems, concurrency, retries, st, attempts, lastErr, results,
                   done, rejErr, inFlightAtReject, settled, clsVars, rerankVars, laterVars>>

Return ==
    /\ outcome = "pending"
    /\ AllUnitsResolved
    /\ outcome' = "returned"
    /\ returned' = Some(results)
    /\ sent' = IF mode = "lenient" THEN Append(sent, DoneMessage) ELSE sent
    /\ UNCHANGED <<mode, nItems, concurrency, retries, st, attempts, lastErr, results,
                   done, rejErr, inFlightAtReject, settled, clsVars, rerankVars, laterVars>>

BatchInit ==
    /\ mode \in {"strict", "lenient"}
    /\ nItems \in 0..MaxItems
    /\ concurrency \in 1..MaxConcurrency
    /\ retries \in 0..MaxRetries
    /\ st = [i \in Items |-> "queued"]
    /\ attempts = [i \in Items |-> 0]
    /\ lastErr = [i \in Items |-> Absent]
    /\ results = [i \in Items |-> Absent]
    /\ done = 0
    /\ sent = <<>>
    /\ outcome = "pending"
    /\ rejErr = Absent
    /\ returned = Absent
    /\ inFlightAtReject = {}
    /\ settled = <<>>

BatchIdle ==
    /\ mode = "strict" /\ nItems = 0 /\ concurrency = 1 /\ retries = 0
    /\ st = <<>> /\ attempts = <<>> /\ lastErr = <<>> /\ results = <<>>
    /\ done = 0 /\ sent = <<>> /\ outcome = "idle" /\ rejErr = Absent
    /\ returned = Absent /\ inFlightAtReject = {} /\ settled = <<>>

(***************************************************************************)
(* isRateLimitError called on one argument.                                *)
(***************************************************************************)
ClsInit == clsErr \in ClassifierInputs /\ clsResult = Absent
ClsIdle == clsErr = JsNull /\ clsResult = Some(FALSE)

Classify ==
    /\ clsResult = Absent
    /\ clsResult' = Some(isRateLimitError(clsErr))
    /\ clsErr' = clsErr
    /\ UNCHANGED <<batchVars, rerankVars, laterVars>>

(***************************************************************************)
(* The reranker adapter: rerankWithJina and rerankJobsWithJina.            *)
(***************************************************************************)
HitIds == {100 + k : k \in 1..MaxJobs}
Scores == {-2, -1, 0, 1}

\* The input lists: n distinct hits, for n in 0..MaxJobs (which hit is which
\* does not matter to the adapter, it never reads a hit's identity).
JobLists == {[k \in 1..n |-> 100 + k] : n \in 0..MaxJobs}

\* What the provider may answer: the request fails, the body holds no results
\* array, or it holds an array of {index, relevance_score}.
RankedEntries == [index : 0..MaxJobs, relevance_score : Scores]
RankedLists == UNION {[1..n -> RankedEntries] : n \in 0..MaxRanked}
ProviderAnswers ==
    {[kind |-> "throws", results |-> <<>>], [kind |-> "noarray", results |-> <<>>]}
    \cup {[kind |-> "results", results |-> r] : r \in RankedLists}

\* The score byIndex.get(idx) ?? -1 falls back to.
MissingScore == -1

\* byIndex after "for (const r of ranked) byIndex.set(r.index, r.relevance_score)":
\* the entry set last for idx, if any.
ByIndexHas(ranked, idx) == \E k \in DOMAIN ranked : ranked[k].index = idx
ByIndexGet(ranked, idx) ==
    LET last == CHOOSE k \in DOMAIN ranked :
                    /\ ranked[k].index = idx
                    /\ \A m \in DOMAIN ranked : ranked[m].index = idx => m <= k
    IN  ranked[last].relevance_score

ScoreOf(ranked, idx) ==
    IF ByIndexHas(ranked, idx) THEN ByIndexGet(ranked, idx) ELSE MissingScore

\* (a, b) => b.score - a.score, as "a is placed before b"
ComesBefore(a, b) == b.score - a.score < 0

\* Array.prototype.sort with that comparator: a stable sort, here by insertion.
RECURSIVE InsertSorted(_, _)
InsertSorted(sorted, x) ==
    IF sorted = <<>> THEN <<x>>
    ELSE IF ComesBefore(x, sorted[Len(sorted)])
         THEN Append(InsertSorted(SubSeq(sorted, 1, Len(sorted) - 1), x), sorted[Len(sorted)])
         ELSE Append(sorted, x)

RECURSIVE SortStable(_)
SortStable(xs) ==
    IF xs = <<>> THEN <<>>
    ELSE InsertSorted(SortStable(SubSeq(xs, 1, Len(xs) - 1)), xs[Len(xs)])

\* rerankWithJina: [] without a key, the provider's failure propagates,
\* [] when the body holds no results array.
rerankWithJina(answer) ==
    IF ~keyPresent THEN [kind |-> "returned", value |-> <<>>]
    ELSE IF answer.kind = "throws" THEN [kind |-> "raised", value |-> <<>>]
    ELSE IF answer.kind = "noarray" THEN [kind |-> "returned", value |-> <<>>]
    ELSE [kind |-> "returned", value |-> answer.results]

\* Mutant: only the hits the provider returned are kept.
ReorderedReturnedOnly(js, ranked) ==
    LET scored == [k \in DOMAIN js |-> [j |-> js[k], idx |-> k - 1,
                                        score |-> ScoreOf(ranked, k - 1)]]
        sorted == SortStable(SelectSeq(scored, LAMBDA x : ByIndexHas(ranked, x.idx)))
    IN  [k \in DOMAIN sorted |-> sorted[k].j]

\* jobs.map((j, idx) => ({j, idx, score})).sort(...).map(x => x.j); idx is 0-based.
Reordered(js, ranked) ==
    LET scored == [k \in DOMAIN js |-> [j |-> js[k], idx |-> k - 1,
                                        score |-> ScoreOf(ranked, k - 1)]]
        sorted == SortStable(scored)
    IN  [k \in DOMAIN sorted |-> sorted[k].j]

rerankJobsWithJina(js, answer) ==
    IF Len(js) <= 1 THEN [kind |-> "returned", value |-> js]
    ELSE LET ranked == rerankWithJina(answer)
         IN  IF ranked.kind = "raised" THEN [kind |-> "raised", value |-> <<>>]
             ELSE IF Len(ranked.value) = 0 THEN [kind |-> "returned", value |-> js]
             ELSE [kind |-> "returned", value |-> Reordered(js, ranked.value)]

RerankInit ==
    /\ jobs \in JobLists
    /\ keyPresent \in BOOLEAN
    /\ provider = Absent
    /\ rrOut = [kind |-> "pending", value |-> <<>>]

RerankIdle ==
    /\ jobs = <<>> /\ keyPresent = FALSE /\ provider = Absent
    /\ rrOut = [kind |-> "idle", value |-> <<>>]

\* One call of rerankJobsWithJina; the provider's answer is recorded when the
\* request is actually made (a key is set and there are at least 2 jobs).
Rerank(answer) ==
    /\ rrOut.kind = "pending"
    /\ provider' = IF keyPresent /\ Len(jobs) > 1 THEN Some(answer) ELSE Absent
    /\ rrOut' = rerankJobsWithJina(jobs, answer)
    /\ UNCHANGED <<jobs, keyPresent, clsVars, batchVars, laterVars>>

(***************************************************************************)
(* The search aggregator (server/serper.ts): the site rules and             *)
(* looksLikeJobPosting.  A URL is the record the URL parser makes of it:   *)
(* whether it parses, its host, its pathname and its search part; id only  *)
(* tells apart links that differ elsewhere in the query string.            *)
(***************************************************************************)
UK_SITES ==
  <<
    [host |-> <<"u","k",".","i","n","d","e","e","d",".","c","o","m">>,
     includeAnyInUrl |->
       <<<<"v","i","e","w","j","o","b">>,
         <<"c","l","k">>,
         <<"r","c","/","c","l","k">>,
         <<"p","a","g","e","a","d","/","c","l","k">>,
         <<"j","o","b">>,
         <<"c","m","p">>>>,
     excludeInUrl |->
       <<<<"c","a","r","e","e","r","-","a","d","v","i","c","e">>,
         <<"s","a","l","a","r","i","e","s">>,
         <<"c","o","m","p","a","n","i","e","s">>,
         <<"i","n","t","e","r","v","i","e","w","-","q","u","e","s","t","i","o","n","s">>,
         <<"i","n","s","i","g","h","t","s">>>>],
    [host |-> <<"w","w","w",".","l","i","n","k","e","d","i","n",".","c","o","m">>,
     includeAnyInUrl |->
       <<<<"j","o","b","s","/","v","i","e","w">>,
         <<"j","o","b","s","/","c","o","l","l","e","c","t","i","o","n","s">>,
         <<"j","o","b","s","/","s","e","a","r","c","h">>>>,
     excludeInUrl |->
       <<<<"l","e","a","r","n","i","n","g">>,
         <<"f","e","e","d">>,
         <<"p","o","s","t","s">>,
         <<"p","u","l","s","e">>>>],
    [host |-> <<"w","w","w",".","r","e","e","d",".","c","o",".","u","k">>,
     includeAnyInUrl |->
       <<<<"j","o","b","s">>,
         <<"j","o","b">>>>,
     excludeInUrl |->
       <<<<"c","a","r","e","e","r","-","a","d","v","i","c","e">>,
         <<"s","a","l","a","r","y">>,
         <<"r","e","c","r","u","i","t","e","r">>,
         <<"c","o","u","r","s","e","s">>,
         <<"b","l","o","g">>>>],
    [host |-> <<"w","w","w",".","g","l","a","s","s","d","o","o","r",".","c","o",".","u","k">>,
     includeAnyInUrl |->
       <<<<"j","o","b","-","l","i","s","t","i","n","g">>,
         <<"J","o","b">>>>,
     excludeInUrl |->
       <<<<"R","e","v","i","e","w","s">>,
         <<"S","a","l","a","r","i","e","s">>,
         <<"I","n","t","e","r","v","i","e","w">>,
         <<"O","v","e","r","v","i","e","w">>,
         <<"B","e","n","e","f","i","t","s">>>>],
    [host |-> <<"w","w","w",".","c","v","-","l","i","b","r","a","r","y",".","c","o",".","u","k">>,
     includeAnyInUrl |->
       <<<<"j","o","b">>,
         <<"j","o","b","s">>>>,
     excludeInUrl |->
       <<<<"c","a","r","e","e","r","-","a","d","v","i","c","e">>,
         <<"s","a","l","a","r","y","-","g","u","i","d","e">>,
         <<"b","l","o","g">>>>],
    [host |-> <<"u","k",".","w","e","l","c","o","m","e","t","o","t","h","e","j","u","n","g","l","e",".","c","o","m">>,
     includeAnyInUrl |->
       <<<<"j","o","b","s">>,
         <<"j","o","b">>>>,
     excludeInUrl |->
       <<<<"c","o","m","p","a","n","i","e","s">>,
         <<"s","a","l","a","r","i","e","s">>,
         <<"m","a","g","a","z","i","n","e">>,
         <<"a","r","t","i","c","l","e","s">>>>]
  >>

StrWwwDot == <<"w","w","w",".">>
StrDot == <<".">>
StrSpace == <<" ">>
StrUntitled == <<"U","n","t","i","t","l","e","d">>

startsWith(s, pre) == Len(s) >= Len(pre) /\ SubSeq(s, 1, Len(pre)) = pre
endsWith(s, suf) == Len(s) >= Len(suf) /\ SubSeq(s, Len(s) - Len(suf) + 1, Len(s)) = suf

\* s.replace(/^www\./, "")
stripWww(s) == IF startsWith(s, StrWwwDot) THEN SubSeq(s, 5, Len(s)) ELSE s

\* Mutant: every host passes.
hostOkAnyHost(host, ruleHost) == TRUE

\* host === ruleHost || hostNoWww === ruleNoWww ||
\* hostNoWww.endsWith("." + ruleNoWww) || ruleNoWww.endsWith("." + hostNoWww)
hostOk(host, ruleHost) ==
    \/ host = ruleHost
    \/ stripWww(host) = stripWww(ruleHost)
    \/ endsWith(stripWww(host), StrDot \o stripWww(ruleHost))
    \/ endsWith(stripWww(ruleHost), StrDot \o stripWww(host))

\* (u.pathname + " " + u.search).toLowerCase()
pathOf(url) == toLowerCase(url.pathname \o StrSpace \o url.search)

looksLikeJobPosting(url, rule) ==
    IF ~url.parses THEN FALSE
    ELSE IF ~hostOk(toLowerCase(url.host), toLowerCase(rule.host)) THEN FALSE
    ELSE LET path == pathOf(url)
         IN IF \E k \in DOMAIN rule.excludeInUrl :
                    includes(path, toLowerCase(rule.excludeInUrl[k]))
            THEN FALSE
            ELSE \E k \in DOMAIN rule.includeAnyInUrl :
                    includes(path, toLowerCase(rule.includeAnyInUrl[k]))

\* Hosts, pathnames and search parts used as inputs.
HostCom == <<"c","o","m">>
HostOther == <<"e","x","a","m","p","l","e",".","o","r","g">>
HostEmpty == <<>>
PathGood == <<"/","j","o","b","s","/","v","i","e","w","/","j","o","b","-","l","i","s","t","i","n","g","-","4","2">>
PathAbout == <<"/","a","b","o","u","t">>
PathRoot == <<"/">>
SearchNone == <<>>

\* u.host: the rule hosts, then indeed.com, m.uk.indeed.com, www.uk.indeed.com,
\* notuk.indeed.com, linkedin.com, co.uk, com, example.org and the empty host.
UrlHosts == {UK_SITES[k].host : k \in DOMAIN UK_SITES} \cup
            {<<"i","n","d","e","e","d",".","c","o","m">>,
             <<"m",".","u","k",".","i","n","d","e","e","d",".","c","o","m">>,
             <<"w","w","w",".","u","k",".","i","n","d","e","e","d",".","c","o","m">>,
             <<"n","o","t","u","k",".","i","n","d","e","e","d",".","c","o","m">>,
             <<"l","i","n","k","e","d","i","n",".","c","o","m">>,
             <<"c","o",".","u","k">>,
             HostCom, HostOther, HostEmpty}
\* u.pathname
UrlPaths == {PathGood, PathAbout, PathRoot,
             <<"/","v","i","e","w","j","o","b">>,
             <<"/","J","o","b","/","E","n","g","i","n","e","e","r">>,
             <<"/","c","a","r","e","e","r","-","a","d","v","i","c","e","/","j","o","b","-","h","u","n","t","i","n","g">>,
             <<"/","j","o","b","s","/","s","a","l","a","r","y","-","c","h","e","c","k","e","r">>,
             <<"/","R","e","v","i","e","w","s","/","j","o","b","-","l","i","s","t","i","n","g">>}
\* u.search
UrlSearches == {SearchNone,
                <<"?","j","k","=","1">>,
                <<"?","q","=","j","o","b">>,
                <<"?","f","r","o","m","=","f","e","e","d">>}
UrlInputs == [parses : BOOLEAN, host : UrlHosts, pathname : UrlPaths,
              search : UrlSearches, id : {0}]

\* looksLikeJobPosting called on one URL and one rule.
LookInit ==
    /\ lkUrl \in UrlInputs
    /\ lkRule \in DOMAIN UK_SITES
    /\ lkResult = Absent

LookIdle ==
    /\ lkUrl = [parses |-> FALSE, host |-> HostEmpty, pathname |-> PathRoot,
                search |-> SearchNone, id |-> 0]
    /\ lkRule = 1
    /\ lkResult = Some(FALSE)

Look ==
    /\ lkResult = Absent
    /\ lkResult' = Some(looksLikeJobPosting(lkUrl, UK_SITES[lkRule]))
    /\ UNCHANGED <<lkUrl, lkRule, clsVars, batchVars, rerankVars, searchVars, matchVars, textVars, docVars>>

(***************************************************************************)
(* searchJobsUK.  One action per awaited request: the action answers the   *)
(* request and runs the code up to the next await (or to the return).  The *)
(* provider is outside the program, so its answer is drawn from a few      *)
(* shapes.  A raw hit is [link, title]: link is <<>> when r.link is        *)
(* missing or blank, else <<url>>; title is the trimmed r.title.           *)
(***************************************************************************)
NumRequested == 10
MaxOutput == 40

TitleA == <<"a">>
TitleB == <<"b">>
TitleBlank == <<>>

Url(h, p, n) == [parses |-> TRUE, host |-> h, pathname |-> p, search |-> SearchNone, id |-> n]
Unparsable(n) == [parses |-> FALSE, host |-> HostEmpty, pathname |-> PathRoot,
                  search |-> SearchNone, id |-> n]
Hit(u, t) == [link |-> Some(u), title |-> t]
BlankLinkHit == [link |-> Absent, title |-> TitleA]

AnswerKinds == {"empty", "full", "offtopic", "mixed"}

\* res.data.organic for a request of rule k, by the shape of the answer.
Organic(kind, k) ==
    LET h == UK_SITES[k].host
        t == IF k % 2 = 1 THEN TitleA ELSE TitleB
    IN CASE kind = "empty" -> <<>>
         [] kind = "full" -> [n \in 1..NumRequested |-> Hit(Url(h, PathGood, n), TitleA)]
         [] kind = "offtopic" ->
              << Hit(Url(h, PathAbout, 1), TitleA),
                 Hit(Url(h, PathAbout, 2), TitleBlank),
                 Hit(Url(HostOther, PathGood, 1), t),
                 Hit(Unparsable(1), t) >>
         [] kind = "mixed" ->
              << Hit(Url(h, PathGood, 1), TitleA),
                 BlankLinkHit,
                 Hit(Url(h, PathGood, 1), TitleB),
                 Hit(Url(HostCom, PathGood, 0), t),
                 Hit(Url(h, PathAbout, 1), TitleBlank),
                 Hit(Url(h, PathGood, 2), TitleBlank) >>

\* Mutant: nothing counts as seen.
SeenHasNothing(seen, link) == FALSE

\* seen.has(link)
SeenHas(seen, link) == link \in seen

\* The object pushed onto all; url is the key, title stands for the
\* fields derived from the raw hit.
ItemOf(r) == [title |-> IF r.title = <<>> THEN StrUntitled ELSE r.title, url |-> r.link[1]]

\* Whether the loop body reaches seen.add / all.push for raw hit r.
Accepts(r, seen, strict, k) ==
    /\ r.link # Absent
    /\ ~SeenHas(seen, r.link[1])
    /\ strict => looksLikeJobPosting(r.link[1], UK_SITES[k])

\* for (const r of organic) { ... } over the rest of the answer.
RECURSIVE ProcessOrganic(_, _, _, _)
ProcessOrganic(organic, acc, strict, k) ==
    IF organic = <<>> THEN acc
    ELSE LET r == Head(organic)
         IN IF Accepts(r, acc.seen, strict, k)
            THEN ProcessOrganic(Tail(organic),
                                [all |-> Append(acc.all, ItemOf(r)),
                                 seen |-> acc.seen \cup {r.link[1]}],
                                strict, k)
            ELSE ProcessOrganic(Tail(organic), acc, strict, k)

\* all.slice(0, 40)
Slice(list) == IF Len(list) <= MaxOutput THEN list ELSE SubSeq(list, 1, MaxOutput)

Offer(pass, k, organic) == [j \in 1..Len(organic) |-> [pass |-> pass, rule |-> k, hit |-> organic[j]]]

\* Mutant: the credential is never looked at.
KeyPresentAlways(key) == TRUE

\* !key is false
KeyPresent(key) == key

\* Mutant: the fallback loop always runs.
FallbackAlways(all) == TRUE

\* all.length === 0
FallbackNeeded(all) == Len(all) = 0

SearchInit ==
    /\ sKey \in BOOLEAN
    /\ sPc = "start"
    /\ sRule = 1
    /\ sAll = <<>>
    /\ sSeen = {}
    /\ sReqs = <<>>
    /\ sOffered = <<>>
    /\ sErr = "none"
    /\ sOut = Absent

SearchIdle ==
    /\ sKey = FALSE
    /\ sPc = "raised"
    /\ sRule = 1
    /\ sAll = <<>>
    /\ sSeen = {}
    /\ sReqs = <<>>
    /\ sOffered = <<>>
    /\ sErr = "SERPER_API_KEY is missing"
    /\ sOut = Absent

\* if (!key) throw new Error("SERPER_API_KEY is missing")
CheckKey ==
    /\ sPc = "start"
    /\ IF KeyPresent(sKey)
       THEN /\ sPc' = "strict"
            /\ sErr' = sErr
       ELSE /\ sPc' = "raised"
            /\ sErr' = "SERPER_API_KEY is missing"
    /\ UNCHANGED <<sKey, sRule, sAll, sSeen, sReqs, sOffered, sOut,
                   clsVars, batchVars, rerankVars, lookVars, matchVars, textVars, docVars>>

\* One strict request is answered; after the last rule the code either
\* enters the fallback loop or returns.
StrictRequest(kind) ==
    /\ sPc = "strict"
    /\ LET organic == Organic(kind, sRule)
           acc == ProcessOrganic(organic, [all |-> sAll, seen |-> sSeen], TRUE, sRule)
       IN /\ sReqs' = Append(sReqs, <<"strict", sRule>>)
          /\ sAll' = acc.all
          /\ sSeen' = acc.seen
          /\ IF sRule < Len(UK_SITES)
             THEN /\ sRule' = sRule + 1
                  /\ sOffered' = sOffered \o Offer("strict", sRule, organic)
                  /\ UNCHANGED <<sPc, sOut>>
             ELSE IF FallbackNeeded(acc.all)
             THEN /\ sPc' = "fallback"
                  /\ sRule' = 1
                  /\ sOffered' = <<>>
                  /\ UNCHANGED sOut
             ELSE /\ sPc' = "returned"
                  /\ sOut' = Some(Slice(acc.all))
                  /\ sOffered' = sOffered \o Offer("strict", sRule, organic)
                  /\ UNCHANGED sRule
    /\ UNCHANGED <<sKey, sErr, clsVars, batchVars, rerankVars, lookVars, matchVars, textVars, docVars>>

\* One fallback request is answered; after the last rule the code returns.
FallbackRequest(kind) ==
    /\ sPc = "fallback"
    /\ LET organic == Organic(kind, sRule)
           acc == ProcessOrganic(organic, [all |-> sAll, seen |-> sSeen], FALSE, sRule)
       IN /\ sReqs' = Append(sReqs, <<"fallback", sRule>>)
          /\ sAll' = acc.all
          /\ sSeen' = acc.seen
          /\ sOffered' = sOffered \o Offer("fallback", sRule, organic)
          /\ IF sRule < Len(UK_SITES)
             THEN /\ sRule' = sRule + 1
                  /\ UNCHANGED <<sPc, sOut>>
             ELSE /\ sPc' = "returned"
                  /\ sOut' = Some(Slice(acc.all))
                  /\ UNCHANGED sRule
    /\ UNCHANGED <<sKey, sErr, clsVars, batchVars, rerankVars, lookVars, matchVars, textVars, docVars>>

\* Mutant: the failure is raised and the hits accepted so far are handed
\* out all the same.
RequestFailsWithPartial ==
    /\ sPc \in {"strict", "fallback"}
    /\ sReqs' = Append(sReqs, <<sPc, sRule>>)
    /\ sPc' = "raised"
    /\ sErr' = "request failed"
    /\ sOut' = Some(Slice(sAll))
    /\ UNCHANGED <<sKey, sRule, sAll, sSeen, sOffered,
                   clsVars, batchVars, rerankVars, lookVars, matchVars, textVars, docVars>>

\* axios.post rejects (network error, timeout, non-2xx): nothing catches it.
RequestFails ==
    /\ sPc \in {"strict", "fallback"}
    /\ sReqs' = Append(sReqs, <<sPc, sRule>>)
    /\ sPc' = "raised"
    /\ sErr' = "request failed"
    /\ UNCHANGED <<sKey, sRule, sAll, sSeen, sOffered, sOut,
                   clsVars, batchVars, rerankVars, lookVars, matchVars, textVars, docVars>>

(***************************************************************************)
(* MatchStep (client/src/components/apply/MatchStep.tsx).  The parent      *)
(* (ApplyWizard) holds the list; the component displays its jobs prop and  *)
(* changes it through onJobsChange.  runSearchAndMatchOnce is an async     *)
(* function of the render that started it: the jobs it reads, through      *)
(* mergeKeepSelected, are that render's jobs prop for the whole run.  One  *)
(* action per await of the run and one per user event.  A found job is     *)
(* its position in the search answer, which stands for its url.            *)
(***************************************************************************)
MaxFound == 6
MaxIds == 6
totalMatches == 5

\* How many hits /api/jobs/search may answer.
FoundCounts == {0, 1, 2, MaxFound}

SkillsTs == <<"ts">>

\* What /api/jobs/match answers when the call succeeds.
MatchAnswers ==
    {[matchPercentage |-> Some(40), matchingSkills |-> Some(SkillsTs)],
     [matchPercentage |-> Some(150), matchingSkills |-> Absent]}

\* What the second, plain request does after the first failed.
FallbackOutcomes == {"ok", "not ok", "throws"}

Min(a, b) == IF a <= b THEN a ELSE b
Max(a, b) == IF a >= b THEN a ELSE b

\* Math.max(0, Math.min(100, Math.round(match.matchPercentage ?? 0)))
ClampPct(raw) == Max(0, Min(100, Nullish(raw, Some(0))[1]))

\* The item matchOne returns when the call succeeded.
MatchedItem(job, match, id) ==
    [id |-> id, applyUrl |-> job,
     matchPercent |-> ClampPct(match.matchPercentage),
     matchingSkills |-> Nullish(match.matchingSkills, Some(<<>>))[1],
     missingSkills |-> <<>>,
     analysis |-> "",
     selected |-> FALSE]

\* `Match failed: ${shortenFail(String(reason))}`, less the reason.
MatchFailed == "Match failed"

\* The item matchOne returns from its catch block.
DegradedItem(job, id, reason) ==
    [id |-> id, applyUrl |-> job,
     matchPercent |-> 0,
     matchingSkills |-> <<>>,
     missingSkills |-> <<>>,
     analysis |-> reason,
     selected |-> FALSE]

\* merged.sort((a, b) => (b.matchPercent ?? 0) - (a.matchPercent ?? 0)):
\* stable, descending.
RECURSIVE InsertByPercent(_, _)
InsertByPercent(sorted, j) ==
    IF sorted = <<>> THEN <<j>>
    ELSE IF j.matchPercent > Head(sorted).matchPercent THEN <<j>> \o sorted
    ELSE <<Head(sorted)>> \o InsertByPercent(Tail(sorted), j)

RECURSIVE SortByPercent(_)
SortByPercent(list) ==
    IF list = <<>> THEN <<>>
    ELSE InsertByPercent(SortByPercent(SubSeq(list, 1, Len(list) - 1)), list[Len(list)])

\* The jobs mergeKeepSelected reads: those of the render that started the run.
PrevJobs(closure, displayed) == closure

\* mergeKeepSelected(next), up to the list it hands to onJobsChange.
mergeKeepSelected(next, prevJobs) ==
    LET prevOf(j) == {n \in DOMAIN prevJobs : prevJobs[n].id = j.id}
        keep(j) == IF prevOf(j) # {}
                   THEN [j EXCEPT !.selected = prevJobs[CHOOSE n \in prevOf(j) : \A k \in prevOf(j) : k <= n].selected]
                   ELSE j
    IN SortByPercent([n \in DOMAIN next |-> keep(next[n])])

\* Mutant: the search answer is not cut to totalMatches.
TopCountUncut == mFound

\* top5.length
TopCount == Min(totalMatches, mFound)

\* The state right after the mount effect called runSearchAndMatchOnce:
\* the list is empty, the search request is in flight.
MatchInit ==
    /\ mMounted = TRUE
    /\ mJobs = <<>>
    /\ mClosure = <<>>
    /\ mPc = "searching"
    /\ mFound = 0
    /\ mAll = <<>>
    /\ mNext = 1
    /\ mCancelled = FALSE
    /\ mNextId = 1
    /\ mLoading = TRUE
    /\ mProgress = 0
    /\ mToast = "none"
    /\ mFailed = {}
    /\ mStaleKey = FALSE
    /\ mPlain = "none"

MatchIdle ==
    /\ mMounted = FALSE
    /\ mJobs = <<>>
    /\ mClosure = <<>>
    /\ mPc = "done"
    /\ mFound = 0
    /\ mAll = <<>>
    /\ mNext = 1
    /\ mCancelled = TRUE
    /\ mNextId = 1
    /\ mLoading = FALSE
    /\ mProgress = 0
    /\ mToast = "none"
    /\ mFailed = {}
    /\ mStaleKey = FALSE
    /\ mPlain = "none"

OtherVars == <<clsVars, batchVars, rerankVars, lookVars, searchVars, textVars, docVars>>

\* The run from the return of matchOne to its next await or to its end:
\* the second cancellation test, push, merge, setProgress, then the next
\* iteration's first cancellation test and call, or the finally block.
AfterMatchOne(one) ==
    /\ mNextId' = mNextId + 1
    /\ IF mCancelled
       THEN /\ mPc' = "done"
            /\ mLoading' = FALSE
            /\ UNCHANGED <<mJobs, mAll, mNext, mProgress>>
       ELSE /\ mAll' = Append(mAll, one)
            /\ mJobs' = mergeKeepSelected(mAll', PrevJobs(mClosure, mJobs))
            /\ mProgress' = Len(mAll')
            /\ IF mNext < TopCount
               THEN /\ mNext' = mNext + 1
                    /\ mPc' = "primary"
                    /\ UNCHANGED mLoading
               ELSE /\ mPc' = "done"
                    /\ mLoading' = FALSE
                    /\ UNCHANGED mNext
    /\ mStaleKey' = (mStaleKey /\ mPc' # "done")

\* The search request resolves with n hits.
SearchResolves(n) ==
    /\ mPc = "searching"
    /\ mFound' = n
    /\ IF Min(totalMatches, n) = 0
       THEN /\ mToast' = "No jobs found"
            /\ mPc' = "done"
            /\ mLoading' = FALSE
       ELSE IF mCancelled
       THEN /\ mPc' = "done"
            /\ mLoading' = FALSE
            /\ UNCHANGED mToast
       ELSE /\ mPc' = "primary"
            /\ UNCHANGED <<mToast, mLoading>>
    /\ mStaleKey' = (mStaleKey /\ mPc' # "done")
    /\ mPlain' = "none"
    /\ UNCHANGED <<mMounted, mJobs, mClosure, mAll, mNext, mCancelled, mNextId, mProgress,
                   mFailed, OtherVars>>

\* The search request rejects: the catch block of runSearchAndMatchOnce.
SearchFails ==
    /\ mPc = "searching"
    /\ mToast' = "Search / matching failed"
    /\ mJobs' = <<>>
    /\ mPc' = "done"
    /\ mLoading' = FALSE
    /\ mStaleKey' = FALSE
    /\ mPlain' = "none"
    /\ UNCHANGED <<mMounted, mClosure, mFound, mAll, mNext, mCancelled, mNextId, mProgress,
                   mFailed, OtherVars>>

\* matchOne: apiRequest and json() succeed.
PrimaryResolves(match) ==
    /\ mPc = "primary"
    /\ AfterMatchOne(MatchedItem(mNext, match, mNextId))
    /\ mPlain' = "none"
    /\ UNCHANGED <<mMounted, mClosure, mFound, mCancelled, mToast, mFailed, OtherVars>>

\* matchOne: apiRequest (or json()) throws; the catch block sends the
\* plain request.
PrimaryFails ==
    /\ mPc = "primary"
    /\ mPc' = "fallback"
    /\ mFailed' = mFailed \cup {mNext}
    /\ mPlain' = "none"
    /\ UNCHANGED <<mMounted, mJobs, mClosure, mFound, mAll, mNext, mCancelled, mNextId,
                   mLoading, mProgress, mToast, mStaleKey, OtherVars>>

\* matchOne: the plain request settles; only the reason depends on it.
FallbackSettles(plain) ==
    /\ mPc = "fallback"
    /\ AfterMatchOne(DegradedItem(mNext, mNextId, MatchFailed))
    /\ mPlain' = plain
    /\ UNCHANGED <<mMounted, mClosure, mFound, mCancelled, mToast, mFailed, OtherVars>>

\* The user ticks or unticks the checkbox of the n-th listed item.
Toggle(n, checked) ==
    /\ mMounted
    /\ n \in DOMAIN mJobs
    /\ mJobs[n].selected # checked
    /\ mJobs' = [mJobs EXCEPT ![n].selected = checked]
    /\ mPlain' = "none"
    /\ UNCHANGED <<mMounted, mClosure, mPc, mFound, mAll, mNext, mCancelled, mNextId,
                   mLoading, mProgress, mToast, mFailed, mStaleKey, OtherVars>>

\* The user clicks Refresh (disabled while loading): onJobsChange([]) and
\* the synchronous start of runSearchAndMatchOnce of this render.
Refresh ==
    /\ mMounted
    /\ ~mLoading
    /\ mNextId + totalMatches - 1 <= MaxIds
    /\ mClosure' = mJobs
    /\ mJobs' = <<>>
    /\ mPc' = "searching"
    /\ mLoading' = TRUE
    /\ mProgress' = 0
    /\ mAll' = <<>>
    /\ mNext' = 1
    /\ mFound' = 0
    /\ mToast' = "none"
    /\ mFailed' = {}
    /\ mStaleKey' = FALSE
    /\ mPlain' = "none"
    /\ UNCHANGED <<mMounted, mCancelled, mNextId, OtherVars>>

\* The component unmounts (the wizard leaves the step): the effect's
\* cleanup sets cancelledRef.current.
Unmount ==
    /\ mMounted
    /\ mMounted' = FALSE
    /\ mCancelled' = TRUE
    /\ mPlain' = "none"
    /\ UNCHANGED <<mJobs, mClosure, mPc, mFound, mAll, mNext, mNextId, mLoading, mProgress,
                   mToast, mFailed, mStaleKey, OtherVars>>

\* The value cancelledRef.current is left with when the effect of
\* [selectedKey] runs again: its cleanup sets true, its body then false.
FlagAfterKeyEffect == FALSE

\* profile.keywords or profile.location changes while the step is
\* mounted and a run is under way: selectedKey changes and the effect of
\* [selectedKey] runs its cleanup and its body, one after the other.
KeyChange ==
    /\ mMounted
    /\ mLoading
    /\ ~mStaleKey
    /\ mStaleKey' = TRUE
    /\ mCancelled' = FlagAfterKeyEffect
    /\ mPlain' = "none"
    /\ UNCHANGED <<mMounted, mJobs, mClosure, mPc, mFound, mAll, mNext, mNextId, mLoading,
                   mProgress, mToast, mFailed, OtherVars>>

(***************************************************************************)
(* The document layout engine (server/services/pdf.ts): the line tests,    *)
(* Q&A detection and parsing, and the classification of prose lines.  A    *)
(* line is a sequence of characters; "u2022" stands for the bullet glyph   *)
(* and "u2014" for the em dash.  White space is the blank.                 *)
(***************************************************************************)
MaxQaLines == 6
MaxProseLines == 3
MaxForcedLines == 4
MaxRuledLines == 4

UpperSet == {UpperChars[k] : k \in DOMAIN UpperChars}
LowerSet == {LowerChars[k] : k \in DOMAIN LowerChars}
Letters == UpperSet \cup LowerSet
Digits == {"0", "1", "2", "3", "4", "5", "6", "7", "8", "9"}
IsSpace(c) == c = " "

\* s.trim()
RECURSIVE trimStart(_)
trimStart(s) == IF s # <<>> /\ IsSpace(Head(s)) THEN trimStart(Tail(s)) ELSE s
RECURSIVE trimEnd(_)
trimEnd(s) == IF s # <<>> /\ IsSpace(s[Len(s)]) THEN trimEnd(SubSeq(s, 1, Len(s) - 1)) ELSE s
trim(s) == trimEnd(trimStart(s))

\* /^={3,}$/ or /^-{3,}$/ on the trimmed line
isUnderline(line) ==
    LET t == trim(line)
    IN /\ Len(t) >= 3
       /\ \/ \A k \in DOMAIN t : t[k] = "="
          \/ \A k \in DOMAIN t : t[k] = "-"

\* The length of the longest prefix of digits.
RECURSIVE DigitPrefix(_)
DigitPrefix(t) == IF t # <<>> /\ Head(t) \in Digits THEN 1 + DigitPrefix(Tail(t)) ELSE 0

\* /^[-u2022]\s+/
HasGlyphMarker(t) == Len(t) >= 2 /\ t[1] \in {"-", "u2022"} /\ IsSpace(t[2])

\* /^\d+\.\s+/
HasNumberMarker(t) ==
    LET n == DigitPrefix(t)
    IN n >= 1 /\ Len(t) >= n + 2 /\ t[n + 1] = "." /\ IsSpace(t[n + 2])

isBullet(line) == LET t == trim(line) IN HasGlyphMarker(t) \/ HasNumberMarker(t)

isAllCaps(str) ==
    LET t == trim(str)
        letters == {k \in DOMAIN t : t[k] \in Letters}
    IN /\ t # <<>>
       /\ Cardinality(letters) >= 4
       /\ \A k \in letters : t[k] \in UpperSet

\* The fixed vocabulary of section names.
CommonHeadings ==
    {<<"p","r","o","f","e","s","s","i","o","n","a","l"," ","s","u","m","m","a","r","y">>,
     <<"s","u","m","m","a","r","y">>,
     <<"e","x","p","e","r","i","e","n","c","e">>,
     <<"w","o","r","k"," ","e","x","p","e","r","i","e","n","c","e">>,
     <<"e","d","u","c","a","t","i","o","n">>,
     <<"s","k","i","l","l","s">>,
     <<"t","e","c","h","n","i","c","a","l"," ","s","k","i","l","l","s">>,
     <<"p","r","o","j","e","c","t","s">>,
     <<"c","e","r","t","i","f","i","c","a","t","i","o","n","s">>,
     <<"a","d","d","i","t","i","o","n","a","l"," ","i","n","f","o","r","m","a","t","i","o","n">>,
     <<"p","r","o","f","i","l","e">>,
     <<"c","o","v","e","r"," ","l","e","t","t","e","r">>,
     <<"i","n","t","e","r","v","i","e","w"," ","q","&","a">>,
     <<"i","n","t","e","r","v","i","e","w"," ","q","a">>}

\* [A-Za-z0-9 &/(),.-]
TitleChars == Letters \cup Digits \cup {" ", "&", "/", "(", ")", ",", ".", "-"}

looksLikeHeading(line) ==
    LET t == trim(line)
    IN IF t = <<>> THEN FALSE
       ELSE IF toLowerCase(t) \in CommonHeadings THEN TRUE
       ELSE IF isAllCaps(t) THEN TRUE
       ELSE /\ Len(t) <= 48
            /\ Len(t) >= 2
            /\ t[1] \in Letters
            /\ \A k \in 2..Len(t) : t[k] \in TitleChars

\* /^resume$/i
StrResume == <<"r","e","s","u","m","e">>
IsLoneResume(t) == toLowerCase(t) = StrResume

\* /\b(20\d{2}|19\d{2})\b/
WordChars == Letters \cup Digits \cup {"_"}
HasYear(p) ==
    \E k \in 1..(Len(p) - 3) :
        /\ p[k] \in {"1", "2"}
        /\ p[k + 1] = (IF p[k] = "1" THEN "9" ELSE "0")
        /\ p[k + 2] \in Digits
        /\ p[k + 3] \in Digits
        /\ k = 1 \/ p[k - 1] \notin WordChars
        /\ k + 3 = Len(p) \/ p[k + 4] \notin WordChars

\* p.length <= 120 && (p.includes(em dash) || p.includes("|") || year)
looksLikeSubheading(p) ==
    /\ Len(p) <= 120
    /\ \/ \E k \in DOMAIN p : p[k] \in {"u2014", "|"}
       \/ HasYear(p)

\* lines[i] || "" for an index that may lie past the end.
LineAt(lines, i) == IF i \in DOMAIN lines THEN lines[i] ELSE <<>>

\* stripDecorativeUnderlines, from index i on.
RECURSIVE StripFrom(_, _)
StripFrom(lines, i) ==
    IF i > Len(lines) THEN <<>>
    ELSE LET cur == trim(lines[i])
             next == trim(LineAt(lines, i + 1))
         IN IF cur # <<>> /\ isUnderline(next) THEN <<lines[i]>> \o StripFrom(lines, i + 2)
            ELSE IF isUnderline(cur) THEN StripFrom(lines, i + 1)
            ELSE <<lines[i]>> \o StripFrom(lines, i + 1)

stripDecorativeUnderlines(lines) == StripFrom(lines, 1)

StrQColon == <<"q", ":">>
StrAColon == <<"a", ":">>

\* t.startsWith("q:") / /^q:\s*/i on the trimmed line, and the same for a:
IsQLine(raw) == startsWith(toLowerCase(trim(raw)), StrQColon)
IsALine(raw) == startsWith(toLowerCase(trim(raw)), StrAColon)

\* line.replace(/^q:\s*/i, "").trim()
MarkerText(raw) == LET t == trim(raw) IN trim(SubSeq(t, 3, Len(t)))

\* Mutant: two markers of each kind are enough.
detectQATwo(lines) ==
    /\ Cardinality({k \in DOMAIN lines : IsQLine(lines[k])}) >= 2
    /\ Cardinality({k \in DOMAIN lines : IsALine(lines[k])}) >= 2

detectQA(lines) ==
    /\ Cardinality({k \in DOMAIN lines : IsQLine(lines[k])}) >= 3
    /\ Cardinality({k \in DOMAIN lines : IsALine(lines[k])}) >= 3

\* A drawn block: its kind, its text, and the answer of a Q&A pair.
Block(kind, text, answer) == [kind |-> kind, text |-> text, answer |-> answer]

\* flush of parseQA: the blocks after it.
QaFlush(acc) ==
    IF trim(acc.q) # <<>> /\ trim(acc.a) # <<>>
    THEN Append(acc.blocks, Block("QA", trim(acc.q), trim(acc.a)))
    ELSE acc.blocks

\* parseQA over the rest of the lines; acc is [q, a, blocks].
RECURSIVE ParseQAFrom(_, _)
ParseQAFrom(lines, acc) ==
    IF lines = <<>> THEN QaFlush(acc)
    ELSE LET line == trim(Head(lines))
             rest == Tail(lines)
         IN IF line = <<>> THEN ParseQAFrom(rest, acc)
            ELSE IF IsQLine(line)
            THEN ParseQAFrom(rest, [q |-> MarkerText(line), a |-> <<>>, blocks |-> QaFlush(acc)])
            ELSE IF IsALine(line)
            THEN ParseQAFrom(rest, [acc EXCEPT !.a = MarkerText(line)])
            ELSE IF acc.a # <<>>
            THEN ParseQAFrom(rest, [acc EXCEPT !.a = acc.a \o StrSpace \o line])
            ELSE IF acc.q # <<>>
            THEN ParseQAFrom(rest, [acc EXCEPT !.q = acc.q \o StrSpace \o line])
            ELSE ParseQAFrom(rest, acc)

parseQA(lines) == ParseQAFrom(lines, [q |-> <<>>, a |-> <<>>, blocks |-> <<>>])

StrInterviewQA == <<"I","n","t","e","r","v","i","e","w"," ","Q","&","A">>
StrContent == <<"C","o","n","t","e","n","t">>

\* t.trim().replace(/:$/, "") of drawSectionTitle
SectionTitleText(t) ==
    LET u == trim(t) IN IF u # <<>> /\ u[Len(u)] = ":" THEN SubSeq(u, 1, Len(u) - 1) ELSE u

\* t.replace(/^[-u2022]\s+/, "")
StripGlyph(t) == IF HasGlyphMarker(t) THEN trimStart(SubSeq(t, 2, Len(t))) ELSE t

\* drawBullet(p.replace(...)): the glyph is stripped by the caller and again
\* by drawBullet.
BulletText(p) == trim(StripGlyph(trim(StripGlyph(p))))

\* The body of flush's loop for one trimmed, non-empty part.
ClassifyPart(p) ==
    IF isBullet(p) THEN Block("Bullet", BulletText(p), <<>>)
    ELSE IF looksLikeSubheading(p) THEN Block("Subheading", trim(p), <<>>)
    ELSE Block("Paragraph", trim(p), <<>>)

\* flush of the prose loop: the blocks of the buffered lines.
RECURSIVE FlushBlocks(_)
FlushBlocks(buffer) ==
    IF buffer = <<>> THEN <<>>
    ELSE IF trim(Head(buffer)) = <<>> THEN FlushBlocks(Tail(buffer))
    ELSE <<ClassifyPart(trim(Head(buffer)))>> \o FlushBlocks(Tail(buffer))

\* The prose loop from index i on; acc is [buffer, blocks, sawHeading].
RECURSIVE ProseFrom(_, _, _)
ProseFrom(lines, i, acc) ==
    IF i > Len(lines) THEN [acc EXCEPT !.blocks = acc.blocks \o FlushBlocks(acc.buffer), !.buffer = <<>>]
    ELSE LET line == trim(lines[i])
         IN IF line = <<>>
            THEN ProseFrom(lines, i + 1,
                           [acc EXCEPT !.blocks = acc.blocks \o FlushBlocks(acc.buffer), !.buffer = <<>>])
            ELSE IF IsLoneResume(line) THEN ProseFrom(lines, i + 1, acc)
            ELSE IF looksLikeHeading(line)
            THEN ProseFrom(lines, i + 1,
                           [buffer |-> <<>>,
                            blocks |-> (acc.blocks \o FlushBlocks(acc.buffer))
                                          \o <<Block("SectionHeading", SectionTitleText(line), <<>>)>>,
                            sawHeading |-> TRUE])
            ELSE ProseFrom(lines, i + 1, [acc EXCEPT !.buffer = Append(acc.buffer, lines[i])])

\* raw: the lines joined by newlines.
RECURSIVE JoinLines(_)
JoinLines(lines) ==
    IF lines = <<>> THEN <<>>
    ELSE IF Len(lines) = 1 THEN lines[1]
    ELSE lines[1] \o <<"\n">> \o JoinLines(Tail(lines))

\* The content pass in prose mode, with the "Content" fallback.
ProseBlocks(raw, lines) ==
    LET acc == ProseFrom(lines, 1, [buffer |-> <<>>, blocks |-> <<>>, sawHeading |-> FALSE])
    IN IF ~acc.sawHeading /\ trim(raw) # <<>>
       THEN acc.blocks \o <<Block("SectionHeading", StrContent, <<>>),
                           Block("Paragraph", trim(raw), <<>>)>>
       ELSE acc.blocks

\* The content pass in Q&A mode.
QaBlocks(lines) == <<Block("SectionHeading", SectionTitleText(StrInterviewQA), <<>>)>> \o parseQA(lines)

\* The lines the inputs are made of.
QaAlphabet == {<<"Q",":"," ","x">>, <<"q",":">>, <<"A",":"," ","y">>, <<"a",":">>, <<"z">>}
ProseAlphabet == {<<"S","k","i","l","l","s">>,
                  <<"-"," ","G","o">>,
                  <<"-"," ","P","Y","T","H","O","N">>,
                  <<"1","."," ","G","o">>,
                  <<"-","x">>,
                  <<"2","0","2","0"," ","|"," ","A","c","m","e">>,
                  <<>>,
                  <<"-","-","-">>}
RuledAlphabet == {<<"x">>, <<"-","-","-">>, <<"=","=","=">>, <<"-","-">>, <<>>}
Modes == {"auto", "qa", "resume"}

SeqsUpTo(alphabet, n) == UNION {[1..k -> alphabet] : k \in 1..n}
QaInputs == SeqsUpTo(QaAlphabet, MaxQaLines)
ProseInputs == {ls \in SeqsUpTo(ProseAlphabet, MaxProseLines) : ls[1] # <<>> /\ ls[Len(ls)] # <<>>}
                  \cup {<< <<>> >>}
RuledInputs == {ls \in SeqsUpTo(RuledAlphabet, MaxRuledLines) : ls[1] # <<>> /\ ls[Len(ls)] # <<>>}

\* Detection is tried on the longer Q&A inputs; a mode is forced on the
\* shorter ones, on the prose inputs and on the inputs with underlines.
TextInit ==
    /\ \/ pLines \in QaInputs /\ pMode = "auto"
       \/ pLines \in SeqsUpTo(QaAlphabet, MaxForcedLines) /\ pMode \in Modes \ {"auto"}
       \/ pLines \in ProseInputs /\ pMode \in Modes \ {"qa"}
       \/ pLines \in RuledInputs /\ pMode = "resume"
    /\ pPc = "input"
    /\ pQaMode = FALSE
    /\ pBlocks = <<>>

TextIdle ==
    /\ pLines = << <<>> >>
    /\ pMode = "auto"
    /\ pPc = "classified"
    /\ pQaMode = FALSE
    /\ pBlocks = <<>>

\* textToPdfBuffer from the content preparation to the end of the content
\* pass: the blocks it draws, in order.
ContentPass ==
    /\ pPc = "input"
    /\ LET lines == stripDecorativeUnderlines([k \in DOMAIN pLines |-> trimEnd(pLines[k])])
           qaMode == pMode = "qa" \/ (pMode = "auto" /\ detectQA(lines))
       IN /\ pQaMode' = qaMode
          /\ pBlocks' = IF qaMode THEN QaBlocks(lines) ELSE ProseBlocks(JoinLines(pLines), lines)
    /\ pPc' = "classified"
    /\ UNCHANGED <<pLines, pMode, clsVars, batchVars, rerankVars, lookVars, searchVars, matchVars, docVars>>

(***************************************************************************)
(* The document layout engine: pages and footers (textToPdfBuffer).        *)
(* Two revisions of the function are in the repository: server/services/   *)
(* pdf.ts, which the routes import, and unnamed/part_005.                  *)
(***************************************************************************)
MaxBlocks == 4

\* A4 in points (841.89 rounded), and the four margins.
PageHeight == 842
MarginPx == 54

Revisions == {"pdf.ts", "part_005"}

\* page.height - page.margins.bottom
Bottom == PageHeight - MarginPx

\* doc.y below the header band and the divider: bandH + 18, then += 14.
HeaderEndY == 64 + 18 + 14

\* doc.y at the top of an added page: part_005 draws the header on
\* pageAdded, pdf.ts leaves the cursor at the top margin.
PageTopY(revision) == IF revision = "part_005" THEN HeaderEndY ELSE MarginPx

\* The px each draw function hands to ensureSpace.
EstimatedHeight ==
    [SectionHeading |-> 52, Paragraph |-> 22, Subheading |-> 18, Bullet |-> 18, QA |-> 80]

\* The y the footer texts are written at.
FooterY(revision) ==
    IF revision = "pdf.ts" THEN PageHeight - MarginPx + 14 ELSE PageHeight - MarginPx - 18

\* Heights of a drawn text, moveDown included: a line, or most of a page.
LineHeight == 14
TextHeights == {LineHeight, 500}

ProseKinds == {"SectionHeading", "Paragraph", "Subheading", "Bullet"}

\* Prose draws nothing for an empty content and always a section title
\* otherwise; Q&A mode draws its title and then the pairs.
ProseDocuments ==
    {d \in SeqsUpTo(ProseKinds, MaxBlocks) :
        d = <<>> \/ \E k \in DOMAIN d : d[k] = "SectionHeading"}
QaDocuments == {<<"SectionHeading">> \o [k \in 1..n |-> "QA"] : n \in 0..(MaxBlocks - 1)}

\* Mutant: ensureSpace never adds a page.
NeedsPageNever(y, px) == FALSE

\* ensureSpace(doc, px) at cursor y: a page is added when px does not fit.
NeedsPage(y, px) == y + px > Bottom

\* doc.text of height h at cursor y: the text continues on an added page
\* when it does not fit above the bottom margin.
TextEnd(revision, y, h) ==
    IF y + h > Bottom THEN [y |-> PageTopY(revision) + (y + h - Bottom), added |-> 1]
    ELSE [y |-> y + h, added |-> 0]

\* The cursor after a block of the kind drawn at y with a text of height h,
\* and the pages its text added.
BlockEnd(revision, kind, y, h) ==
    IF kind = "SectionHeading" THEN [y |-> y + 18 + 10, added |-> 0]
    ELSE IF kind = "QA"
         THEN LET q == TextEnd(revision, y + 3, LineHeight)
                  e == TextEnd(revision, q.y + 28, h)
              IN [y |-> e.y + 10, added |-> q.added + e.added]
         ELSE TextEnd(revision, y, h)

\* n pages added to the document, none with a footer.
RECURSIVE WithPages(_, _)
WithPages(footers, n) == IF n = 0 THEN footers ELSE WithPages(Append(footers, <<>>), n - 1)

\* The header bands of a page that doc.addPage has just added: part_005
\* draws one in its pageAdded handler, pdf.ts has no handler.
BandsOnAddedPage(revision) == IF revision = "part_005" THEN 1 ELSE 0

\* The header counts after n pages were added.
RECURSIVE WithHeaders(_, _, _)
WithHeaders(headers, revision, n) ==
    IF n = 0 THEN headers
    ELSE WithHeaders(Append(headers, BandsOnAddedPage(revision)), revision, n - 1)

DocInit ==
    /\ dRevision \in Revisions
    /\ dQaMode \in BOOLEAN
    /\ dMarginFlow \in BOOLEAN
    /\ dBlocks \in (IF dQaMode THEN QaDocuments ELSE ProseDocuments)
    /\ dY = HeaderEndY
    /\ dPageCount = 1
    /\ dFooters = << <<>> >>
    /\ dPc = "content"
    /\ dI = 0
    /\ dTotalPages = 0
    /\ dPage = 1
    /\ dHeaders = <<1>>
    /\ dStart = <<>>

DocIdle ==
    /\ dRevision = "pdf.ts"
    /\ dQaMode = FALSE
    /\ dMarginFlow = FALSE
    /\ dBlocks = <<>>
    /\ dY = HeaderEndY
    /\ dPageCount = 1
    /\ dFooters = << <<>> >>
    /\ dPc = "ended"
    /\ dI = 0
    /\ dTotalPages = 0
    /\ dPage = 1
    /\ dHeaders = <<1>>
    /\ dStart = <<>>

NotDocVars == <<clsVars, batchVars, rerankVars, lookVars, searchVars, matchVars, textVars>>

\* One draw function: ensureSpace, then the block.
DrawBlock(h) ==
    /\ dPc = "content"
    /\ dBlocks # <<>>
    /\ LET kind == Head(dBlocks)
           broke == NeedsPage(dY, EstimatedHeight[kind])
           y0 == IF broke THEN PageTopY(dRevision) ELSE dY
           e == BlockEnd(dRevision, kind, y0, h)
           added == (IF broke THEN 1 ELSE 0) + e.added
       IN /\ dY' = e.y
          /\ dPageCount' = dPageCount + added
          /\ dPage' = dPage + added
          /\ dFooters' = WithPages(dFooters, added)
          /\ dHeaders' = WithHeaders(dHeaders, dRevision, added)
          /\ dStart' = <<[kind |-> kind, y |-> y0, page |-> dPage + (IF broke THEN 1 ELSE 0)]>>
    /\ dBlocks' = Tail(dBlocks)
    /\ UNCHANGED <<dRevision, dQaMode, dMarginFlow, dPc, dI, dTotalPages, NotDocVars>>

\* The end of the render branch: pdf.ts ends the document in its Q&A
\* branch; otherwise the footer pass begins with the buffered page range.
ContentDone ==
    /\ dPc = "content"
    /\ dBlocks = <<>>
    /\ IF dQaMode /\ dRevision = "pdf.ts"
       THEN dPc' = "ended" /\ UNCHANGED <<dI, dTotalPages>>
       ELSE dPc' = "footers" /\ dI' = 1 /\ dTotalPages' = dPageCount
    /\ UNCHANGED <<dRevision, dQaMode, dMarginFlow, dBlocks, dY, dPageCount, dFooters, dPage,
                   dHeaders, dStart, NotDocVars>>

\* One round of the footer loop: switchToPage, the date text and the page
\* number text at footerY.  Below the bottom margin each of the two texts
\* is either written where it was put or moved by pdfkit to a page added
\* at the end of the document.
StampFooter ==
    /\ dPc = "footers"
    /\ dI <= dTotalPages
    /\ LET label == [page |-> dI, of |-> dTotalPages]
       IN IF FooterY(dRevision) > Bottom /\ dMarginFlow
          THEN /\ dPageCount' = dPageCount + 2
               /\ dPage' = dPageCount + 2
               /\ dFooters' = Append(Append(dFooters, <<>>), <<label>>)
               /\ dHeaders' = WithHeaders(dHeaders, dRevision, 2)
               /\ dY' = PageTopY(dRevision)
          ELSE /\ dFooters' = [dFooters EXCEPT ![dI] = Append(@, label)]
               /\ dPage' = dI
               /\ dY' = FooterY(dRevision)
               /\ UNCHANGED <<dPageCount, dHeaders>>
    /\ dI' = dI + 1
    /\ UNCHANGED <<dRevision, dQaMode, dMarginFlow, dBlocks, dPc, dTotalPages, dStart, NotDocVars>>

\* flushPages and end after the last round.
EndDocument ==
    /\ dPc = "footers"
    /\ dI > dTotalPages
    /\ dPc' = "ended"
    /\ UNCHANGED <<dRevision, dQaMode, dMarginFlow, dBlocks, dY, dPageCount, dFooters, dI,
                   dTotalPages, dPage, dHeaders, dStart, NotDocVars>>

(***************************************************************************)
(* Specifications.                                                         *)
(***************************************************************************)
LaterIdle == LookIdle /\ SearchIdle /\ MatchIdle /\ TextIdle /\ DocIdle

Init == BatchInit /\ ClsIdle /\ RerankIdle /\ LaterIdle

Next ==
    \/ \E i \in Items : Start(i)
    \/ \E i \in Items : HandlerResolves(i)
    \/ \E i \in Items, e \in HandlerErrors : HandlerRejects(i, e)
    \/ \E i \in Items : Retry(i)
    \/ Return

Spec == Init /\ [][Next]_vars

\* Handlers settle, backoffs elapse, the limiter and the event loop run.
FairSpec ==
    /\ Spec
    /\ \A i \in 0..(MaxItems - 1) :
          /\ WF_vars(Start(i))
          /\ WF_vars(HandlerResolves(i) \/ \E e \in HandlerErrors : HandlerRejects(i, e))
          /\ WF_vars(Retry(i))
    /\ WF_vars(Return)

ClsSpecInit == ClsInit /\ BatchIdle /\ RerankIdle /\ LaterIdle
ClsNext == Classify
ClsSpec == ClsSpecInit /\ [][ClsNext]_vars

RerankSpecInit == RerankInit /\ BatchIdle /\ ClsIdle /\ LaterIdle
RerankNext == \E answer \in ProviderAnswers : Rerank(answer)
RerankSpec == RerankSpecInit /\ [][RerankNext]_vars

\* looksLikeJobPosting on its own.
LookSpecInit == LookInit /\ ClsIdle /\ BatchIdle /\ RerankIdle /\ SearchIdle /\ MatchIdle /\ TextIdle /\ DocIdle
LookNext == Look
LookSpec == LookSpecInit /\ [][LookNext]_vars

\* searchJobsUK.
SearchSpecInit == SearchInit /\ ClsIdle /\ BatchIdle /\ RerankIdle /\ LookIdle /\ MatchIdle /\ TextIdle /\ DocIdle
SearchNext ==
    \/ CheckKey
    \/ \E kind \in AnswerKinds : StrictRequest(kind)
    \/ \E kind \in AnswerKinds : FallbackRequest(kind)
    \/ RequestFails
SearchSpec == SearchSpecInit /\ [][SearchNext]_vars

\* MatchStep.
MatchSpecInit == MatchInit /\ ClsIdle /\ BatchIdle /\ RerankIdle /\ LookIdle /\ SearchIdle /\ TextIdle /\ DocIdle
MatchNext ==
    \/ \E n \in FoundCounts : SearchResolves(n)
    \/ SearchFails
    \/ \E match \in MatchAnswers : PrimaryResolves(match)
    \/ PrimaryFails
    \/ \E plain \in FallbackOutcomes : FallbackSettles(plain)
    \/ \E n \in 1..totalMatches, checked \in BOOLEAN : Toggle(n, checked)
    \/ Refresh
    \/ Unmount
    \/ KeyChange
MatchSpec == MatchSpecInit /\ [][MatchNext]_vars

\* The content pass of the document layout engine.
TextSpecInit ==
    TextInit /\ ClsIdle /\ BatchIdle /\ RerankIdle /\ LookIdle /\ SearchIdle /\ MatchIdle /\ DocIdle
TextNext == ContentPass
TextSpec == TextSpecInit /\ [][TextNext]_vars

\* The pages and footers of the document layout engine.
DocSpecInit ==
    DocInit /\ ClsIdle /\ BatchIdle /\ RerankIdle /\ LookIdle /\ SearchIdle /\ MatchIdle /\ TextIdle
DocNext ==
    \/ \E h \in TextHeights : DrawBlock(h)
    \/ ContentDone
    \/ StampFooter
    \/ EndDocument
DocSpec == DocSpecInit /\ [][DocNext]_vars

(***************************************************************************)
(* Properties of the batch runner.                                         *)
(***************************************************************************)
Unsettled == {"queued", "running", "waiting"}
HoldsSlot == {"running", "waiting"}
Filled == {i \in Items : results[i] # Absent}
IsProgress(m) == m # [type |-> "done"]
ProgressReports == SelectSeq(sent, IsProgress)

\* What the code is to leave in slot i for an item whose unit of work ended:
\* the handler's value, or {ok: false, error: message or "Failed"}.
ExpectedSlot(i) ==
    IF st[i] = "succeeded" THEN [ok |-> TRUE, value |-> i]
    ELSE LET m == lastErr[i][1].message
         IN  [ok |-> FALSE,
              error |-> IF m # Absent /\ m[1] # <<>> THEN m[1] ELSE StrFailed]

\* C1: whenever the run returns, the returned array has exactly items.length
\* entries and entry i is the outcome of the unit of work of items[i], whatever
\* order the units ended in.
C1_ResultsByIndex ==
    outcome = "returned" =>
        /\ returned # Absent
        /\ DOMAIN returned[1] = 0..(nItems - 1)
        /\ \A i \in Items :
              /\ st[i] \in {"succeeded", "failed"}
              /\ returned[1][i] = Some(ExpectedSlot(i))

\* C1 witness: a run of 2 items returned, the unit of item 1 having ended first.
C1_Witness ==
    /\ outcome = "returned"
    /\ nItems = 2
    /\ settled = <<1, 0>>

\* C2: the number of units of work started and not yet resolved never exceeds
\* the configured concurrency; a unit waiting to retry counts, and the bound
\* holds after a strict-mode rejection too.
C2_ConcurrencyBound ==
    Cardinality({i \in Items : st[i] \in HoldsSlot}) <= concurrency

\* C2 witness: after a strict rejection, a unit waits to retry and the units
\* holding a slot are exactly as many as the limit allows.
C2_Witness ==
    /\ mode = "strict"
    /\ outcome = "rejected"
    /\ \E i \in Items : st[i] = "waiting"
    /\ Cardinality({i \in Items : st[i] \in HoldsSlot}) = concurrency

\* C3: the handler of an item is invoked at most retries + 1 times; it is
\* invoked again only after its previous invocation failed with a rate-limit
\* error; after a failure that is not a rate-limit error, or after retries + 1
\* rate-limit failures, the item is never invoked again: its failure is terminal.
C3_StateInv ==
    \A i \in Items :
        /\ attempts[i] <= retries + 1
        /\ st[i] = "waiting" =>
              /\ lastErr[i] # Absent
              /\ isRateLimitError(lastErr[i][1])
              /\ attempts[i] <= retries
        /\ (st[i] \in {"waiting", "failed"} /\ ~isRateLimitError(lastErr[i][1]))
              => st[i] = "failed"
        /\ (st[i] \in {"waiting", "failed"} /\ attempts[i] = retries + 1)
              => st[i] = "failed"

C3_Step ==
    \A i \in Items :
        /\ attempts'[i] # attempts[i] =>
              /\ attempts'[i] = attempts[i] + 1
              /\ attempts[i] >= 1 =>
                    /\ st[i] = "waiting"
                    /\ isRateLimitError(lastErr[i][1])
        /\ st[i] = "failed" => (st'[i] = "failed" /\ attempts'[i] = attempts[i])

C3_RetryOnlyOnRateLimit == [](C3_StateInv) /\ [][C3_Step]_vars

\* C3 witness: one item failed after retries + 1 >= 2 rate-limit failures and
\* another failed on its first, non-rate-limit, failure.
C3_Witness ==
    /\ retries >= 1
    /\ \E i, j \in Items :
          /\ st[i] = "failed" /\ attempts[i] = retries + 1
          /\ isRateLimitError(lastErr[i][1])
          /\ st[j] = "failed" /\ attempts[j] = 1
          /\ ~isRateLimitError(lastErr[j][1])

\* C4: an item whose handler failed k times with a rate-limit error,
\* 1 <= k <= retries, is not failed by it; when it then succeeds and all other
\* items succeed, the run does not reject and completes, every slot holds its
\* item's success value, and progress was reported exactly N times.
C4_RetriedItemRecovers ==
    /\ \A i \in Items :
          (st[i] = "failed" /\ isRateLimitError(lastErr[i][1]))
              => attempts[i] = retries + 1
    /\ ((\A i \in Items : st[i] = "succeeded") /\ (\E i \in Items : attempts[i] >= 2)) =>
          /\ outcome # "rejected"
          /\ outcome = "returned" \/ (outcome = "pending" /\ AllUnitsResolved)
          /\ \A i \in Items : results[i] = Some([ok |-> TRUE, value |-> i])
          /\ Len(ProgressReports) = nItems

\* C4 witness: an item succeeded on attempt retries + 1 = 3, after 2 rate-limit
\* failures, and the run of 2 items returned.
C4_Witness ==
    /\ outcome = "returned"
    /\ nItems = 2
    /\ retries = 2
    /\ \E i \in Items : st[i] = "succeeded" /\ attempts[i] = 3
    /\ \A i \in Items : st[i] = "succeeded"

\* The first item to fail, in the order the units ended.
FirstFailed ==
    LET ks == {k \in DOMAIN settled : st[settled[k]] = "failed"}
    IN  settled[CHOOSE k \in ks : \A m \in ks : k <= m]

\* C5: in strict mode the run rejects in the very step in which an item fails
\* terminally, with that item's error, and never yields a result array; the
\* rejection is final; the units in flight at the rejection are not cancelled,
\* each of them runs until its own handler settles it.
C5_StateInv ==
    mode = "strict" =>
        /\ (\E i \in Items : st[i] = "failed") <=> outcome = "rejected"
        /\ outcome = "rejected" =>
              /\ returned = Absent
              /\ rejErr = Some([item |-> FirstFailed, err |-> lastErr[FirstFailed][1]])
              /\ results[FirstFailed] = Absent

C5_Step ==
    (mode = "strict" /\ outcome = "rejected") =>
        /\ outcome' = "rejected" /\ rejErr' = rejErr /\ returned' = Absent
        /\ \A j \in Items :
              st[j] \in HoldsSlot => st'[j] \in HoldsSlot \cup {"succeeded", "failed"}

C5_InFlightFinish ==
    \A j \in 0..(MaxItems - 1) :
        [](j \in inFlightAtReject => <>(j \in Items /\ st[j] \in {"succeeded", "failed"}))

C5_StrictAbort == [](C5_StateInv) /\ [][C5_Step]_vars /\ C5_InFlightFinish

\* C5 witness: a unit that was in flight when the run rejected has since
\* succeeded and stored its result.
C5_Witness ==
    /\ mode = "strict"
    /\ outcome = "rejected"
    /\ \E j \in inFlightAtReject : st[j] = "succeeded" /\ results[j] # Absent

\* C6: in lenient mode a terminal failure is stored in the item's own slot as
\* {ok: false, error}, the other items keep their own outcomes (a stored slot
\* is never overwritten), every item is run, and the batch never rejects.
C6_StateInv ==
    mode = "lenient" =>
        /\ outcome # "rejected"
        /\ rejErr = Absent
        /\ \A i \in Items :
              /\ st[i] \in {"succeeded", "failed"} => results[i] = Some(ExpectedSlot(i))
              /\ st[i] \in Unsettled => results[i] = Absent
        /\ outcome = "returned" => \A i \in Items : attempts[i] >= 1

C6_Step ==
    mode = "lenient" =>
        \A i \in Items : results[i] # Absent => results'[i] = results[i]

C6_LenientCapture == [](C6_StateInv) /\ [][C6_Step]_vars

\* C6 witness: a lenient run of 2 items returned with every item failed.
C6_Witness ==
    /\ mode = "lenient"
    /\ outcome = "returned"
    /\ nItems = 2
    /\ \A i \in Items : st[i] = "failed" /\ ~results[i][1].ok

\* C7: the progress reports carry done = 1, 2, 3, ... with total = N and
\* done <= total; a report is made only with the item's slot written: with k
\* reports made exactly k slots are filled.
C7_ProgressCounts ==
    /\ \A k \in DOMAIN ProgressReports :
          /\ ProgressReports[k].done = k
          /\ ProgressReports[k].total = nItems
          /\ ProgressReports[k].done <= ProgressReports[k].total
    /\ Len(ProgressReports) = Cardinality(Filled)
    /\ done = Len(ProgressReports)

\* C7 witness: 2 reports made, the later-indexed item having ended first, in a
\* run in which an item was retried.
C7_Witness ==
    /\ Len(ProgressReports) = 2
    /\ settled = <<1, 0>>
    /\ attempts[0] >= 2

(***************************************************************************)
(* Properties of the rate-limit classifier.                                *)
(***************************************************************************)
Carries429(e) ==
    \/ e.status = Some(429)
    \/ e.statusCode = Some(429)
    \/ (e.response # Absent /\ e.response[1].status = Some(429))
    \/ (e.response # Absent /\ e.response[1].statusCode = Some(429))

\* The message text of e: its message, or its error text when it has no
\* message (the classifier reads either as the error's message).
MessageText(e) ==
    IF e.message # Absent /\ e.message[1] # <<>> THEN e.message[1]
    ELSE IF e.error # Absent THEN e.error[1]
    ELSE <<>>

MessageNamesRateLimit(e) ==
    \/ includes(toLowerCase(MessageText(e)), StrRateLimit)
    \/ includes(toLowerCase(MessageText(e)), StrTooManyRequests)
    \/ includes(toLowerCase(MessageText(e)), StrQuota)

\* C8: isRateLimitError(e) is true for every error that carries status 429 in
\* any of status, statusCode, response.status, response.statusCode, whatever
\* the other locations hold, and for every error whose message contains
\* "rate limit", "too many requests" or "quota" in any letter case; it is false
\* for null, for undefined and for every error with neither.
C8_ClassifierAsClaimed ==
    clsResult # Absent =>
        clsResult[1] = (/\ clsErr.kind = "object"
                        /\ Carries429(clsErr) \/ MessageNamesRateLimit(clsErr))

(***************************************************************************)
(* Properties of the reranker adapter.                                     *)
(***************************************************************************)
ProviderFailedOrEmpty ==
    \/ ~keyPresent
    \/ /\ provider # Absent
       /\ \/ provider[1].kind \in {"throws", "noarray"}
          \/ provider[1].results = <<>>

\* C9: rerankJobsWithJina returns the input list unchanged and raises no error
\* whenever the provider call throws, the credential is missing, or the
\* provider returns zero results.
C9_FailOpen ==
    (rrOut.kind \in {"returned", "raised"} /\ ProviderFailedOrEmpty) =>
        rrOut = [kind |-> "returned", value |-> jobs]

\* Position of hit h in list js, and whether the provider returned a score for
\* the hit at 0-based input index idx.
PosIn(js, h) == CHOOSE k \in DOMAIN js : js[k] = h
WasReturned(idx) == \E k \in DOMAIN provider[1].results : provider[1].results[k].index = idx
ReturnedScore(idx) ==
    LET rs == provider[1].results
        last == CHOOSE k \in DOMAIN rs :
                    rs[k].index = idx /\ \A m \in DOMAIN rs : rs[m].index = idx => m <= k
    IN  rs[last].relevance_score

\* C10: on a successful rerank of at least 2 hits the output is in descending
\* order of score; every hit the provider did not return comes after every hit
\* it returned; hits of equal score, and the unreturned hits among themselves,
\* keep their original relative order.
C10_RerankOrder ==
    (/\ rrOut.kind = "returned"
     /\ Len(jobs) >= 2
     /\ provider # Absent
     /\ provider[1].kind = "results"
     /\ provider[1].results # <<>>) =>
        /\ Len(rrOut.value) = Len(jobs)
        /\ \A p, q \in DOMAIN rrOut.value :
              p < q =>
                LET a == PosIn(jobs, rrOut.value[p]) - 1
                    b == PosIn(jobs, rrOut.value[q]) - 1
                IN  /\ WasReturned(b) => WasReturned(a)
                    /\ (WasReturned(a) /\ WasReturned(b)) =>
                          \/ ReturnedScore(a) > ReturnedScore(b)
                          \/ (ReturnedScore(a) = ReturnedScore(b) /\ a < b)
                    /\ (~WasReturned(a) /\ ~WasReturned(b)) => a < b


(***************************************************************************)
(* Claims about searchJobsUK and looksLikeJobPosting.                      *)
(***************************************************************************)
\* The filter of the pass an offered raw hit was answered in, without the
\* seen test.
PassesFilter(o) ==
    /\ o.hit.link # Absent
    /\ o.pass = "strict" => looksLikeJobPosting(o.hit.link[1], UK_SITES[o.rule])

\* Positions in sOffered of the hits that pass the filter of their pass.
Passing == {j \in DOMAIN sOffered : PassesFilter(sOffered[j])}

\* Of these, the first occurrence of each URL.
FirstOccurrences ==
    LET passing == Passing
    IN {j \in passing : \A i \in passing : i < j => sOffered[i].hit.link # sOffered[j].hit.link}

\* C11: the list searchJobsUK returns has no two entries with the same URL,
\* has at most 40 entries, and every entry is built from the first
\* occurrence of its URL among the hits its pass lets through, the entries
\* standing in the order of these occurrences (rule order, then the order of
\* the provider's answer); so in the strict pass and in the fallback pass.
C11_DedupFirstCap ==
    sPc = "returned" =>
        LET out == sOut[1]
            firsts == FirstOccurrences
            src(i) == CHOOSE j \in firsts : sOffered[j].hit.link[1] = out[i].url
        IN /\ Len(out) <= MaxOutput
           /\ \A i, j \in DOMAIN out : i # j => out[i].url # out[j].url
           /\ \A i \in DOMAIN out :
                 /\ \E j \in firsts : sOffered[j].hit.link[1] = out[i].url
                 /\ out[i] = ItemOf(sOffered[src(i)].hit)
           /\ \A i, j \in DOMAIN out : i < j => src(i) < src(j)

\* A returned run that was cut to 40 entries and in which one URL was let
\* through under two rules with two titles.
C11_Witness ==
    /\ sPc = "returned"
    /\ Len(sAll) > MaxOutput
    /\ Len(sOut[1]) = MaxOutput
    /\ LET passing == Passing IN \E i, j \in passing :
          /\ i < j
          /\ sOffered[i].hit.link = sOffered[j].hit.link
          /\ sOffered[i].rule # sOffered[j].rule
          /\ sOffered[i].hit.title # sOffered[j].hit.title
          /\ \E n \in DOMAIN sOut[1] : sOut[1][n].url = sOffered[i].hit.link[1]


\* The URL and rule of the call, and the parts of the claim about them.
LookedHost == stripWww(toLowerCase(lkUrl.host))
LookedRuleHost == stripWww(toLowerCase(UK_SITES[lkRule].host))
HostIsRuleHost == LookedHost = LookedRuleHost
HostIsSubdomain == endsWith(LookedHost, StrDot \o LookedRuleHost)
HostIsParentDomain == endsWith(LookedRuleHost, StrDot \o LookedHost)
HasPositiveToken ==
    \E k \in DOMAIN UK_SITES[lkRule].includeAnyInUrl :
        includes(pathOf(lkUrl), toLowerCase(UK_SITES[lkRule].includeAnyInUrl[k]))
HasExcludedToken ==
    \E k \in DOMAIN UK_SITES[lkRule].excludeInUrl :
        includes(pathOf(lkUrl), toLowerCase(UK_SITES[lkRule].excludeInUrl[k]))

\* C12 as stated: the strict filter lets a raw hit through only if its URL
\* parses, its host is the rule's host up to a www prefix or a subdomain of
\* it, and its path and query hold a positive token and no excluded token;
\* a host that is merely a parent domain of the rule's host is rejected.
C12_StrictFilterAsClaimed ==
    lkResult = Some(TRUE) =>
        /\ lkUrl.parses
        /\ HostIsRuleHost \/ HostIsSubdomain
        /\ HasPositiveToken
        /\ ~HasExcludedToken

\* C12 amended: as above, but the host may also be a parent domain of the
\* rule's host (the rule's host ends with "." and the hit's host); every
\* hit failing one of the conditions, an unparsable URL included, is
\* rejected.
C12_StrictFilter ==
    lkResult = Some(TRUE) =>
        /\ lkUrl.parses
        /\ HostIsRuleHost \/ HostIsSubdomain \/ HostIsParentDomain
        /\ HasPositiveToken
        /\ ~HasExcludedToken

\* A hit on a parent domain of the rule's host was let through.
C12_Witness ==
    /\ lkResult = Some(TRUE)
    /\ HostIsParentDomain
    /\ ~HostIsRuleHost
    /\ ~HostIsSubdomain


\* The requests of one pass, one per rule in rule order.
OnePerRule(pass) == [k \in 1..Len(UK_SITES) |-> <<pass, k>>]
RanFallback == \E n \in DOMAIN sReqs : sReqs[n][1] = "fallback"
OfferedLinks == {sOffered[j].hit.link[1] : j \in {n \in DOMAIN sOffered : sOffered[n].hit.link # Absent}}

\* C13, states: a run that returned after the fallback pass issued the six
\* strict requests and then exactly one fallback request per rule; it
\* accepted exactly the hits with a non-empty link, each URL once, whatever
\* their host and path; and when the whole fallback pass answered 4 distinct
\* hits, all from one rule, the output is these 4 hits in order.
C13_StateInv ==
    /\ sPc = "fallback" => /\ sAll = <<>> \/ sRule > 1
                           /\ SubSeq(sReqs, 1, Len(UK_SITES)) = OnePerRule("strict")
    /\ (sPc = "returned" /\ RanFallback) =>
          /\ sReqs = OnePerRule("strict") \o OnePerRule("fallback")
          /\ {sAll[n].url : n \in DOMAIN sAll} = OfferedLinks
          /\ Len(sAll) = Cardinality(OfferedLinks)
          /\ (/\ Len(sOffered) = 4
              /\ Cardinality(OfferedLinks) = 4
              /\ \A i, j \in DOMAIN sOffered : sOffered[i].rule = sOffered[j].rule)
             => sOut[1] = [j \in 1..4 |-> ItemOf(sOffered[j].hit)]
    /\ (sPc = "returned" /\ ~RanFallback) => sReqs = OnePerRule("strict")

\* C13, steps: the strict pass goes on to the fallback pass only with
\* nothing accepted, and returns without it only with something accepted.
C13_Step ==
    /\ (sPc = "strict" /\ sPc' = "fallback") => sAll' = <<>>
    /\ (sPc = "strict" /\ sPc' = "returned") => sAll' # <<>>

\* C13: the fallback pass runs if and only if the strict pass over all
\* rules accepted nothing; it issues one request per rule and accepts every
\* hit with a non-empty link, deduplicated by URL; 4 distinct fallback hits
\* from one source after an empty strict pass are exactly the output.
C13_FallbackPass == []C13_StateInv /\ [][C13_Step]_vars

\* The strict pass accepted nothing although it was answered hits, and the
\* fallback pass returned the 4 distinct hits one rule answered.
C13_Witness ==
    /\ sPc = "returned"
    /\ RanFallback
    /\ Len(sOffered) = 4
    /\ Cardinality(OfferedLinks) = 4
    /\ Len(sOut[1]) = 4
    /\ \E j \in DOMAIN sOffered : ~looksLikeJobPosting(sOffered[j].hit.link[1], UK_SITES[sOffered[j].rule])


ConfigError == "SERPER_API_KEY is missing"

\* C14, states: without the credential no request is ever issued, nothing
\* is returned, and the run is either not started or failed with the
\* configuration error.
C14_StateInv ==
    ~sKey =>
        /\ sReqs = <<>>
        /\ sOut = Absent
        /\ sPc \in {"start", "raised"}
        /\ sPc = "raised" <=> sErr = ConfigError

\* C14, steps: without the credential the first step raises the
\* configuration error, and nothing follows it (no retry).
C14_Step ==
    ~sKey =>
        /\ sPc = "start"
        /\ sPc' = "raised"
        /\ sErr' = ConfigError
        /\ sReqs' = <<>>

\* C14: with the provider credential missing searchJobsUK fails with the
\* configuration error before any work: no search request is issued, and
\* the error is raised once and never retried.
C14_MissingCredential == []C14_StateInv /\ [][C14_Step]_vars

\* The call without the credential has failed.
C14_Witness ==
    /\ ~sKey
    /\ sPc = "raised"
    /\ sErr = ConfigError
    /\ sReqs = <<>>


(***************************************************************************)
(* Claims about MatchStep.                                                 *)
(***************************************************************************)
\* A scoring run that ended by itself: the search answered and the
\* component was never unmounted.
ScoringRunEnded == mPc = "done" /\ ~mCancelled /\ mToast # "Search / matching failed"
ListedJobs == {mJobs[n].applyUrl : n \in DOMAIN mJobs}

\* C15: a scoring run that is not cancelled ends with exactly
\* N = min(5, found) items on display, one per job, whichever scoring
\* calls failed; the item of a failed call has matchPercent 0 and empty
\* skill arrays; and once the search answered, no failure of a scoring call
\* is reported as a failure of the run.
C15_FullListAlways ==
    /\ ScoringRunEnded =>
          /\ Len(mJobs) = Min(5, mFound)
          /\ ListedJobs = 1..Min(5, mFound)
    /\ \A n \in DOMAIN mJobs :
          mJobs[n].applyUrl \in mFailed =>
              /\ mJobs[n].matchPercent = 0
              /\ mJobs[n].matchingSkills = <<>>
              /\ mJobs[n].missingSkills = <<>>
    /\ mPc \in {"primary", "fallback"} => mToast = "none"
    /\ (mPc = "done" /\ mFound > 0) => mToast = "none"

\* A run over 6 found jobs ended with 5 items on display although two of
\* the scoring calls failed.
C15_Witness ==
    /\ ScoringRunEnded
    /\ mFound = 6
    /\ Len(mJobs) = 5
    /\ Cardinality(mFailed) = 2
    /\ \E n \in DOMAIN mJobs : mJobs[n].applyUrl \in mFailed /\ mJobs[n].matchPercent = 0
    /\ \E n \in DOMAIN mJobs : mJobs[n].matchPercent > 0

\* A step of the run that merges: allMatched grew.
MergeStep == mAll' # mAll /\ mAll' # <<>>

\* C16: an item on display that the user has selected during the run is
\* still selected after every later merge of the run.
C16_Step ==
    MergeStep =>
        \A n \in DOMAIN mJobs :
            mJobs[n].selected =>
                \E k \in DOMAIN mJobs' : mJobs'[k].id = mJobs[n].id /\ mJobs'[k].selected

C16_SelectionSurvivesMerge == [][C16_Step]_vars

\* C17: an item X that was selected when the user clicked Refresh is
\* selected again when the refreshed run lists it (the item of X's id, or
\* of X's job), whatever its new score and position.
C17_Step ==
    MergeStep =>
        \A x \in DOMAIN mClosure :
            mClosure[x].selected =>
                \A k \in DOMAIN mJobs' :
                    (mJobs'[k].id = mClosure[x].id \/ mJobs'[k].applyUrl = mClosure[x].applyUrl)
                        => mJobs'[k].selected

C17_SelectionSurvivesRefresh == [][C17_Step]_vars


(***************************************************************************)
(* Claims about the document layout engine.                                *)
(***************************************************************************)
\* The lines the content pass works on, and their marker lines.
PreparedLines == stripDecorativeUnderlines([k \in DOMAIN pLines |-> trimEnd(pLines[k])])
QLinesOf(lines) == {k \in DOMAIN lines : IsQLine(lines[k])}
ALinesOf(lines) == {k \in DOMAIN lines : IsALine(lines[k])}
QLines == QLinesOf(PreparedLines)
ALines == ALinesOf(PreparedLines)
QaPairsDrawn == {n \in DOMAIN pBlocks : pBlocks[n].kind = "QA"}

\* C19 as stated: an input with 3 Q: lines and 3 A: lines, in any
\* arrangement, is rendered in Q&A mode as exactly 3 pairs (here even with
\* a text after every marker).
C19_ThreePairsAsClaimed ==
    (/\ pPc = "classified"
     /\ pMode = "auto"
     /\ Cardinality(QLines) = 3
     /\ Cardinality(ALines) = 3
     /\ \A k \in QLines \cup ALines : MarkerText(PreparedLines[k]) # <<>>)
        => pQaMode /\ Cardinality(QaPairsDrawn) = 3

RECURSIVE SeqOfSet(_)
SeqOfSet(set) ==
    IF set = {} THEN <<>>
    ELSE LET m == CHOOSE x \in set : \A y \in set : x <= y
         IN <<m>> \o SeqOfSet(set \ {m})

\* first, then the lines at the positions ks, joined by blanks.
RECURSIVE JoinFrom(_, _, _)
JoinFrom(first, lines, ks) ==
    IF ks = <<>> THEN first
    ELSE JoinFrom(first \o StrSpace \o trim(lines[Head(ks)]), lines, Tail(ks))

\* The pair a Q: line at position i stands for: its segment runs to the
\* line before the next Q: line; the answer is the text of the segment's
\* last A: line and the plain lines after it; the question is the text of
\* the Q: line and the plain lines at which the answer was empty (none
\* once the text of the Q: line is empty).
PairOf(lines, i) ==
    LET qs == {k \in DOMAIN lines : IsQLine(lines[k])}
        later == {k \in qs : k > i}
        last == IF later = {} THEN Len(lines) ELSE (CHOOSE k \in later : \A j \in later : k <= j) - 1
        as == {k \in (i + 1)..last : IsALine(lines[k])}
        plain == {k \in (i + 1)..last : trim(lines[k]) # <<>> /\ ~IsALine(lines[k])}
        lastA == CHOOSE k \in as : \A j \in as : j <= k
        answerEmptyAt(c) ==
            LET before == {k \in as : k < c}
            IN before = {} \/ MarkerText(lines[CHOOSE k \in before : \A j \in before : j <= k]) = <<>>
        qText == MarkerText(lines[i])
        aText == IF as = {} THEN <<>> ELSE MarkerText(lines[lastA])
    IN [q |-> IF qText = <<>> THEN <<>>
              ELSE JoinFrom(qText, lines, SeqOfSet({c \in plain : answerEmptyAt(c)})),
        a |-> IF aText = <<>> THEN <<>>
              ELSE JoinFrom(aText, lines, SeqOfSet({c \in plain : c > lastA}))]

\* The pairs of the Q: lines whose question and answer are both non-empty,
\* in input order.
ExpectedPairs(lines) ==
    LET qs == SeqOfSet({k \in DOMAIN lines : IsQLine(lines[k])})
        pairs == [n \in DOMAIN qs |-> PairOf(lines, qs[n])]
        good == SeqOfSet({n \in DOMAIN qs : pairs[n].q # <<>> /\ pairs[n].a # <<>>})
    IN [n \in DOMAIN good |-> Block("QA", pairs[good[n]].q, pairs[good[n]].a)]

\* Every Q: line has a text and is directly followed by an A: line with a text.
AlternatingIn(lines, qs, as) ==
    \A k \in qs :
        /\ MarkerText(lines[k]) # <<>>
        /\ k + 1 \in as
        /\ MarkerText(lines[k + 1]) # <<>>
Alternating == AlternatingIn(PreparedLines, QLines, ALines)

\* C19 amended: without a forced mode an input is rendered in Q&A mode if
\* and only if it has at least 3 Q: lines and at least 3 A: lines; in Q&A
\* mode the blocks are the "Interview Q&A" heading and then one pair per
\* Q: line, in input order, only for the Q: lines whose question and
\* answer are both non-empty (the question and the answer of a Q: line
\* being those of PairOf): 3 pairs when the input has 3 Q: lines and 3 A:
\* lines, each Q: line with a text and directly followed by an A: line
\* with a text.
C19_QaPairs ==
    pPc = "classified" =>
        LET lines == PreparedLines
            qs == QLinesOf(lines)
            as == ALinesOf(lines)
        IN /\ pMode = "auto" => (pQaMode <=> (Cardinality(qs) >= 3 /\ Cardinality(as) >= 3))
           /\ pQaMode =>
                 /\ pBlocks = <<Block("SectionHeading", StrInterviewQA, <<>>)>> \o ExpectedPairs(lines)
                 /\ \A n \in QaPairsDrawn : pBlocks[n].text # <<>> /\ pBlocks[n].answer # <<>>
                 /\ (Cardinality(qs) = 3 /\ Cardinality(as) = 3 /\ AlternatingIn(lines, qs, as))
                       => Cardinality(QaPairsDrawn) = 3

\* Three Q: lines each followed by its A: line were detected and drawn as
\* three pairs.
C19_Witness ==
    /\ pPc = "classified"
    /\ pMode = "auto"
    /\ pQaMode
    /\ Cardinality(QLines) = 3
    /\ Cardinality(ALines) = 3
    /\ Alternating
    /\ Cardinality(QaPairsDrawn) = 3


\* The input is one detected heading line followed by lines that each start
\* with a dash or bullet glyph and white space, or with a number, a full
\* stop and white space.
HeadingThenBullets ==
    /\ Len(pLines) >= 1
    /\ looksLikeHeading(pLines[1])
    /\ ~IsLoneResume(trim(pLines[1]))
    /\ \A k \in 2..Len(pLines) : isBullet(pLines[k])

\* C20: in prose mode an input made of one detected heading line followed
\* by k bullet lines produces exactly one SectionHeading block followed by
\* k Bullet blocks, in input order, and no Paragraph or Subheading block,
\* whatever the bullet text is.
C20_HeadingThenBulletBlocks ==
    (pPc = "classified" /\ ~pQaMode /\ HeadingThenBullets) =>
        /\ Len(pBlocks) = Len(pLines)
        /\ pBlocks[1] = Block("SectionHeading", SectionTitleText(pLines[1]), <<>>)
        /\ \A k \in 2..Len(pLines) : pBlocks[k] = Block("Bullet", BulletText(trim(pLines[k])), <<>>)


\* C18: for every rendered document, in prose mode and in Q&A mode, footers
\* are stamped only after all content blocks are placed; with N the number
\* of pages of the finished document every page i in 1..N carries exactly
\* one footer "Page i of N", and the footer pass adds no page.  Stated for
\* the documents whose footer texts stay on the page they are written on.
C18_FootersOnEveryPage ==
    ~dMarginFlow =>
        /\ (\E p \in DOMAIN dFooters : dFooters[p] # <<>>) => dBlocks = <<>> /\ dPc # "content"
        /\ dTotalPages > 0 => dPageCount = dTotalPages
        /\ dPc = "ended" =>
              \A p \in 1..dPageCount : dFooters[p] = <<[page |-> p, of |-> dPageCount]>>


\* The estimated heights as the claim lists them.
ClaimedHeight ==
    [SectionHeading |-> 52, Subheading |-> 18, Bullet |-> 18, Paragraph |-> 22, QA |-> 80]

\* A step of the content pass that draws a block.
DrawStep == dPc = "content" /\ dBlocks # <<>> /\ dBlocks' = Tail(dBlocks)

\* The block drawn last began where its estimated height fits.
C21_StateInv ==
    dStart # <<>> => dStart[1].y + ClaimedHeight[dStart[1].kind] <= PageHeight - MarginPx

\* A drawn block begins on a new page exactly when its estimated height
\* does not fit at the cursor, else at the cursor; the page index does not
\* decrease in the content pass.
C21_Step ==
    /\ dPc = "content" => dPage' >= dPage
    /\ DrawStep =>
          LET kind == Head(dBlocks)
              began == dStart'[1]
          IN /\ dStart' # <<>>
             /\ began.kind = kind
             /\ IF dY + ClaimedHeight[kind] > PageHeight - MarginPx
                THEN began.page = dPage + 1 /\ began.y = PageTopY(dRevision)
                ELSE began.page = dPage /\ began.y = dY

\* C21: in the content pass every block is drawn only after ensureSpace
\* with its estimated height (52, 18, 18, 22, 80): when the cursor plus
\* that height exceeds the page height minus the bottom margin a new page
\* is started first, so every block begins where its estimated height fits
\* above the bottom margin; the page index never decreases during the
\* content pass.
C21_EnsureSpaceFirst == []C21_StateInv /\ [][C21_Step]_vars

\* A block whose estimated height did not fit began at the top of a page
\* started for it.
C21_Witness ==
    /\ dStart # <<>>
    /\ dStart[1].page > 1
    /\ dStart[1].y = PageTopY(dRevision)


\* C22: every page of the document, the first page and every page started
\* later by a page break, has the header band drawn on it exactly once.
\* Stated for the documents whose footer texts stay on the page they are
\* written on.
C22_HeaderOnEveryPage ==
    ~dMarginFlow => \A p \in 1..dPageCount : dHeaders[p] = 1


\* No line of the document looks like a heading, and the content is not
\* empty.
NoHeadingLine ==
    /\ \A k \in DOMAIN PreparedLines : ~looksLikeHeading(PreparedLines[k])
    /\ trim(JoinLines(pLines)) # <<>>

\* C23: in prose mode, when no line is detected as a heading and the
\* content is non-empty, the blocks are exactly one "Content" section
\* heading followed by one paragraph holding the entire text, so that no
\* line's content is in more than one block.
C23_ContentFallbackOnly ==
    (pPc = "classified" /\ ~pQaMode /\ NoHeadingLine) =>
        pBlocks = <<Block("SectionHeading", StrContent, <<>>),
                    Block("Paragraph", trim(JoinLines(pLines)), <<>>)>>


\* The lines at the positions of keep, in their order.
LinesAt(lines, keep) == LET ks == SeqOfSet(keep) IN [n \in DOMAIN ks |-> lines[ks[n]]]

\* C24: stripDecorativeUnderlines removes every underline-only line that
\* immediately follows a non-blank line, also in runs of consecutive
\* underline lines, and keeps every other line unchanged and in its
\* original order (an underline-only line that follows no non-blank line
\* may be kept or removed).
C24_UnderlinesStripped ==
    LET lines == [k \in DOMAIN pLines |-> trimEnd(pLines[k])]
        plain == {k \in DOMAIN lines : ~isUnderline(lines[k])}
        ruled == {k \in DOMAIN lines : isUnderline(lines[k]) /\ k > 1 /\ trim(lines[k - 1]) # <<>>}
        out == stripDecorativeUnderlines(lines)
    IN pPc = "classified" =>
          \E keep \in SUBSET DOMAIN lines :
              /\ plain \subseteq keep
              /\ keep \cap ruled = {}
              /\ out = LinesAt(lines, keep)


\* A scoring run is under way and its context has changed: the key has
\* changed since the run began, or the step is unmounted.
ContextChangedInRun == mPc \in {"searching", "primary", "fallback"} /\ (mStaleKey \/ ~mMounted)

\* C25: once a context change has happened during a scoring run (the
\* keywords/location key changed, or the step was unmounted), the run
\* starts no further item's scoring call and merges nothing more into the
\* list on display; the call in flight finishes and its result is dropped.
C25_Step ==
    ContextChangedInRun =>
        /\ ~MergeStep
        /\ mNext' = mNext
        /\ ~(mPc = "searching" /\ mPc' = "primary")

C25_NothingAfterContextChange == [][C25_Step]_vars


RequestError == "request failed"

\* C26, states: a call that failed with the request's error has returned
\* nothing.
C26_StateInv ==
    sErr = RequestError =>
        /\ sPc = "raised"
        /\ sOut = Absent
        /\ sReqs # <<>>

\* C26, steps: the failing request is the last one of the call, and a call
\* that has failed does nothing more.
C26_Step ==
    /\ (sPc \in {"strict", "fallback"} /\ sErr' = RequestError) =>
          /\ sPc' = "raised"
          /\ sOut' = Absent
          /\ sReqs' = Append(sReqs, <<sPc, sRule>>)
    /\ sPc = "raised" => UNCHANGED searchVars

\* C26: if a rule's search request fails, in the strict pass or in the
\* fallback pass, searchJobsUK fails with that error: it returns no partial
\* result from the rules already queried and queries no later rule.
C26_RequestFailurePropagates == []C26_StateInv /\ [][C26_Step]_vars

\* A request failed after earlier rules had accepted hits and before the
\* last rule was queried.
C26_Witness ==
    /\ sErr = RequestError
    /\ sAll # <<>>
    /\ Len(sReqs) < Len(UK_SITES)
    /\ sOut = Absent

(***************************************************************************)
(* The strict runner after its rejection.                                  *)
(***************************************************************************)
\* C27: once batchProcess has rejected, the units still in flight or queued
\* run on without effect on the caller: no onProgress callback is invoked
\* after the rejection.
C27_Step ==
    (mode = "strict" /\ outcome = "rejected") => sent' = sent

C27_NoProgressAfterRejection == [][C27_Step]_vars

(***************************************************************************)
(* The message stream of batchProcessWithSSE.                              *)
(***************************************************************************)
DoneMessages == SelectSeq(sent, LAMBDA m : m = DoneMessage)

\* C28, states: before the return only progress messages have been sent, one
\* per filled slot; at the return the stream is N progress messages followed
\* by one done message, and all N slots are filled.
C28_StateInv ==
    mode = "lenient" =>
        /\ outcome = "pending" =>
              /\ DoneMessages = <<>>
              /\ Len(sent) = Cardinality(Filled)
        /\ outcome = "returned" =>
              /\ Len(sent) = nItems + 1
              /\ \A k \in 1..nItems : sent[k] = [type |-> "progress", done |-> k, total |-> nItems]
              /\ sent[nItems + 1] = DoneMessage
              /\ Filled = Items

\* C28, steps: nothing is sent after the done message.
C28_Step ==
    (mode = "lenient" /\ outcome = "returned") => sent' = sent

\* C28, progress: the done message is eventually sent, given that every
\* handler call settles.
C28_DoneSent ==
    <>(mode = "lenient" => outcome = "returned")

\* C28: batchProcessWithSSE sends exactly N progress messages and then exactly
\* one done message; the done message is the last message sent and is sent
\* only after all N result slots are filled, also when every item fails.
C28_SseStream == []C28_StateInv /\ [][C28_Step]_vars /\ C28_DoneSent

\* A lenient run of 2 items, every item failed, has sent its done message.
C28_Witness ==
    /\ mode = "lenient"
    /\ nItems = 2
    /\ \A i \in Items : st[i] = "failed"
    /\ Len(sent) = 3
    /\ sent[3] = DoneMessage

(***************************************************************************)
(* The reranker's output as a rearrangement of its input.                  *)
(***************************************************************************)
Occurrences(xs, x) == Cardinality({p \in DOMAIN xs : xs[p] = x})

\* C29: whenever rerankJobsWithJina returns, its output is a permutation of
\* its input list (same length, every input hit exactly once), whatever the
\* provider answered: a subset of the indices, duplicated indices, or indices
\* outside the input range.
C29_RerankPermutation ==
    rrOut.kind = "returned" =>
        /\ Len(rrOut.value) = Len(jobs)
        /\ \A k \in DOMAIN jobs : Occurrences(rrOut.value, jobs[k]) = 1

\* For an input of 3 hits the provider's answer held an index outside the
\* input range and an index inside it, and the call returned the hits in a
\* new order.
C29_Witness ==
    /\ rrOut.kind = "returned"
    /\ Len(jobs) = 3
    /\ provider # Absent
    /\ provider[1].kind = "results"
    /\ \E k \in DOMAIN provider[1].results : provider[1].results[k].index >= Len(jobs)
    /\ \E k \in DOMAIN provider[1].results : provider[1].results[k].index < Len(jobs)
    /\ rrOut.value # jobs

(***************************************************************************)
(* matchOne after a failed scoring request.                                *)
(***************************************************************************)
\* The scores an answered scoring request gives an item.
AnsweredScores == {ClampPct(a.matchPercentage) : a \in MatchAnswers}

\* C30, steps: the item of a matchOne whose plain request has just settled.
C30_Step ==
    (mPc = "fallback" /\ Len(mAll') = Len(mAll) + 1) =>
        LET one == mAll'[Len(mAll')]
        IN  /\ (one.matchPercent = 0 /\ one.analysis = MatchFailed) => mPlain' # "ok"
            /\ mPlain' = "ok" => one.matchPercent \in AnsweredScores

\* C30: matchOne yields a degraded item (matchPercent 0, "Match failed"
\* analysis) only when both the primary scoring request and the plain
\* fallback request failed; when the primary request fails and the fallback
\* request succeeds, the item carries the fallback's score.
C30_DegradedOnlyIfBothFail == [][C30_Step]_vars
====
